---- MODULE Spec2Model ----
(***************************************************************************)
(* Club Lit: the chat / presence subsystem of the server.                  *)
(*                                                                         *)
(*   - the Socket.IO handlers of the server entry file (joinRoom,          *)
(*     newMessage, disconnect) over the process-wide onlineUsers Map;      *)
(*   - the message routes (routes/messages.js) and the club membership     *)
(*     routes (routes/clubs.js) over the document store.                   *)
(*                                                                         *)
(* Every HTTP handler is one action that runs the whole handler; the       *)
(* request and its status code are left in `response`, the message         *)
(* documents it returned in `body`, its broadcasts in `emitted`.           *)
(*                                                                         *)
(* Specifications: SpecPresence (socket handlers), SpecClubs (membership   *)
(* routes), SpecMsg (message routes over one club), SpecList (long         *)
(* message histories and list requests).                                   *)
(***************************************************************************)
EXTENDS Integers, Sequences, FiniteSets, TLC

(***************************************************************************)
(* Universes of identifiers.                                               *)
(***************************************************************************)
UserIds == {"a", "u1", "u2"}
ClubIds == {"c1", "c2"}
SocketIds == {"s1", "s2"}
\* a payload field that is absent (undefined / null / "")
Missing == "missing"
\* the user ids that joinRoom payloads carry
PresenceUserIds == {"u1", "u2"}

VARIABLES
    sockets,      \* socket id -> [open, userId, rooms]: the live Socket.IO sockets
    joinedAs,     \* history: socket id -> the (clubId, userId) pairs its joinRoom events carried
    onlineUsers,  \* the onlineUsers Map: a sequence of [key, val] in key insertion order,
                  \* val the Set of user ids as a duplicate-free sequence in insertion order
    event,        \* history: the socket event handled last, [name, socket, clubId, userId, repeated]
    emitted,      \* the io.to(room).emit calls of the last handler, in order
    users,        \* the User collection: user id -> [exists, isAdmin, joinedClubs, notifications]
    clubs,        \* the Club collection: club id -> [status, createdBy, members]
    messages,     \* the Message collection: the documents [id, user, clubId, message, timestamp]
                  \* in natural (insertion) order
    msgCount,     \* the number of message ids issued so far (ids are 1, 2, ...)
    now,          \* the server clock (ms) as the last handler that ran read it
    response,     \* history: the HTTP request handled last and the status code it got
    body,         \* history: the message documents the last response carried (send, edit,
                  \* list), or the document the handler deleted (delete)
    inflight,     \* a request that is suspended at the await of its write:
                  \* [op, actor, id, text, doc], or NoRequest
    identity,     \* the email and UserName fields of the User documents:
                  \* user id -> [email, UserName]
    books,        \* the number of documents in the Book collection
    bookRequests, \* the BookRequest collection: the documents [user, bookTitle, status]
                  \* in insertion order (a document's id is its position)
    chat          \* the chat page of one signed-in member: [messages, skipped], its
                  \* messages state and (history) the handlers that dropped a duplicate

presenceVars == <<sockets, joinedAs, onlineUsers>>
socketVars == <<sockets, joinedAs, onlineUsers, event>>
storeVars == <<users, clubs>>
msgVars == <<messages, msgCount, now>>
vars == <<sockets, joinedAs, onlineUsers, event, emitted, users, clubs,
          messages, msgCount, now, response, body, inflight, identity, books,
          bookRequests, chat>>
sideVars == <<identity, books, bookRequests, chat>>

(***************************************************************************)
(* Helpers over sequences.                                                 *)
(***************************************************************************)
Range(s) == {s[i] : i \in 1..Len(s)}

RECURSIVE SeqFilterOut(_, _)
\* the sequence s without the occurrences of x (Array.prototype.filter(e => e !== x))
SeqFilterOut(s, x) ==
    IF s = <<>> THEN <<>>
    ELSE IF Head(s) = x THEN SeqFilterOut(Tail(s), x)
         ELSE <<Head(s)>> \o SeqFilterOut(Tail(s), x)

(***************************************************************************)
(* The onlineUsers Map (Map<clubId, Set<userId>>).                         *)
(***************************************************************************)
MapHas(m, k) == \E i \in 1..Len(m) : m[i].key = k
MapIndex(m, k) == CHOOSE i \in 1..Len(m) : m[i].key = k
MapGet(m, k) == m[MapIndex(m, k)].val
\* Map.prototype.set: replaces the value of an existing key in place, appends a new key
MapSet(m, k, v) ==
    IF MapHas(m, k)
    THEN [m EXCEPT ![MapIndex(m, k)] = [key |-> k, val |-> v]]
    ELSE Append(m, [key |-> k, val |-> v])

\* Set.prototype.add on an insertion-ordered set (mutant: Array.prototype.push)
SetAddPush(set, x) == Append(set, x)
\* Set.prototype.add on an insertion-ordered set
SetAdd(set, x) == IF x \in Range(set) THEN set ELSE Append(set, x)
\* Set.prototype.delete: the set without x (the boolean result is SetHas before the call)
SetDelete(set, x) == SeqFilterOut(set, x)
SetHas(set, x) == x \in Range(set)

\* the online set of club c as a mathematical set (empty when the Map has no entry)
Online(c) == IF MapHas(onlineUsers, c) THEN Range(MapGet(onlineUsers, c)) ELSE {}

\* (mutant: io.emit, a broadcast to every connected socket)
EmitToEveryone(room, name, payload) == [room |-> "*", event |-> name, payload |-> payload]
Emit(room, name, payload) == [room |-> room, event |-> name, payload |-> payload]
\* (mutant: the set is changed silently)
PresenceEmitsNothing(clubId, members) == <<>>
\* the two presence broadcasts of one mutation of a club's set
PresenceEmits(clubId, members) ==
    << Emit(clubId, "onlineUsers", members), Emit(clubId, "updateOnlineUsers", members) >>

NewSocket == [open |-> FALSE, userId |-> Missing, rooms |-> {}]

\* the record of a handled socket event; repeated: the same socket had already sent
\* a joinRoom with this (clubId, userId)
Event(name, s, clubId, userId, repeated) ==
    [name |-> name, socket |-> s, clubId |-> clubId, userId |-> userId, repeated |-> repeated]
NoEvent == Event("none", Missing, Missing, Missing, FALSE)

(***************************************************************************)
(* Socket.IO handlers.                                                     *)
(***************************************************************************)
\* io.on("connection"): a fresh socket object, no userId, no rooms
Connect(s) ==
    /\ ~sockets[s].open
    /\ sockets' = [sockets EXCEPT ![s] = [open |-> TRUE, userId |-> Missing, rooms |-> {}]]
    /\ joinedAs' = [joinedAs EXCEPT ![s] = {}]
    /\ event' = Event("connection", s, Missing, Missing, FALSE)
    /\ emitted' = <<>>
    /\ UNCHANGED <<onlineUsers, storeVars, msgVars, response, body, inflight, sideVars>>

\* socket.on("joinRoom", ({ clubId, userId }) => ...)
JoinRoom(s, clubId, userId) ==
    /\ sockets[s].open
    /\ event' = Event("joinRoom", s, clubId, userId, <<clubId, userId>> \in joinedAs[s])
    /\ UNCHANGED <<storeVars, msgVars, response, body, inflight, sideVars>>
    /\ IF userId = Missing \/ clubId = Missing
       THEN /\ emitted' = <<>>
            /\ UNCHANGED presenceVars
       ELSE LET withEntry == IF MapHas(onlineUsers, clubId) THEN onlineUsers
                             ELSE MapSet(onlineUsers, clubId, <<>>)
                userSet == SetAdd(MapGet(withEntry, clubId), userId)
            IN  /\ sockets' = [sockets EXCEPT ![s].rooms = @ \cup {clubId},
                                              ![s].userId = userId]
                /\ joinedAs' = [joinedAs EXCEPT ![s] = @ \cup {<<clubId, userId>>}]
                /\ onlineUsers' = MapSet(withEntry, clubId, userSet)
                /\ emitted' = PresenceEmits(clubId, userSet)

\* socket.on("newMessage", (data) => ...): relays the payload to the room it names
NewMessageRelay(s, clubId, data) ==
    /\ sockets[s].open
    /\ event' = Event("newMessage", s, clubId, Missing, FALSE)
    /\ emitted' = IF clubId = Missing THEN <<>>
                  ELSE << Emit(clubId, "newMessage", [clubId |-> clubId, data |-> data]) >>
    /\ UNCHANGED <<presenceVars, storeVars, msgVars, response, body, inflight, sideVars>>

RECURSIVE DisconnectLoop(_, _, _)
\* the for..of loop of the disconnect handler over onlineUsers.entries(), from entry i on:
\* the Map after the loop and the emits it made
DisconnectLoop(m, i, userId) ==
    IF i > Len(m) THEN [map |-> m, emits |-> <<>>]
    ELSE IF SetHas(m[i].val, userId)
         THEN LET left == SetDelete(m[i].val, userId)
                  rest == DisconnectLoop([m EXCEPT ![i].val = left], i + 1, userId)
              IN  [map |-> rest.map, emits |-> PresenceEmits(m[i].key, left) \o rest.emits]
         ELSE DisconnectLoop(m, i + 1, userId)

\* socket.on("disconnect"): socket.userId is deleted from the Set of every club;
\* the socket object is gone (it has left its rooms; a later connection is a new object)
Disconnect(s) ==
    /\ sockets[s].open
    /\ LET after == DisconnectLoop(onlineUsers, 1, sockets[s].userId)
       IN  /\ onlineUsers' = after.map
           /\ emitted' = after.emits
    /\ sockets' = [sockets EXCEPT ![s] = NewSocket]
    /\ joinedAs' = [joinedAs EXCEPT ![s] = {}]
    /\ event' = Event("disconnect", s, Missing, sockets[s].userId, FALSE)
    /\ UNCHANGED <<storeVars, msgVars, response, body, inflight, sideVars>>

InitSockets ==
    /\ sockets = [s \in SocketIds |-> NewSocket]
    /\ joinedAs = [s \in SocketIds |-> {}]
    /\ onlineUsers = <<>>
    /\ event = NoEvent
    /\ emitted = <<>>

NextPresence ==
    \/ \E s \in SocketIds : Connect(s)
    \/ \E s \in SocketIds, c \in ClubIds \cup {Missing}, u \in PresenceUserIds \cup {Missing} :
          JoinRoom(s, c, u)
    \/ \E s \in SocketIds, c \in ClubIds \cup {Missing} : NewMessageRelay(s, c, "payload")
    \/ \E s \in SocketIds : Disconnect(s)

(***************************************************************************)
(* The document store: User and Club documents.                            *)
(***************************************************************************)
\* an identifier that is not a valid ObjectId
BadId == "bad-id"
\* mongoose.Types.ObjectId.isValid
isValidId(value) == value # BadId /\ value # Missing
\* the account of MASTER_ADMIN_EMAIL (the one the seed step creates as administrator)
MasterAdmin == "a"

NoClub == [status |-> "unused", createdBy |-> Missing, members |-> <<>>]

\* Model.findById: the document with this id, if the collection holds one
ClubFound(clubId) == clubId \in ClubIds /\ clubs[clubId].status = "live"
UserFound(userId) == userId \in UserIds /\ users[userId].exists

\* Array.prototype.findIndex(e => e === x): the first index of x, 0 when there is none
RECURSIVE FindIndexFrom(_, _, _)
FindIndexFrom(s, x, i) ==
    IF i > Len(s) THEN 0
    ELSE IF s[i] = x THEN i ELSE FindIndexFrom(s, x, i + 1)
FindIndex(s, x) == FindIndexFrom(s, x, 1)
\* Array.prototype.splice(i, 1): the array without its i-th element
Splice1(s, i) == SubSeq(s, 1, i - 1) \o SubSeq(s, i + 1, Len(s))
\* Array.prototype.some(e => e === x)
Some(s, x) == x \in Range(s)
\* $addToSet
AddToSet(s, x) == IF Some(s, x) THEN s ELSE Append(s, x)
\* $pull
Pull(s, x) == SeqFilterOut(s, x)

\* a message text or query value as a request carries it: a string (its characters)
\* or something that is not a string (undefined, a number, ...)
Str(chars) == [isString |-> TRUE, chars |-> chars]
NotAString == [isString |-> FALSE, chars |-> <<>>]

\* the request handled and the status it was answered with
\* (id: the club id or message id the request names; target: the user id it names;
\* text: the message text or limit query it carries)
Response(op, actor, id, target, status) ==
    [op |-> op, actor |-> actor, id |-> id, target |-> target, text |-> NotAString,
     status |-> status]
NoResponse == Response("none", Missing, Missing, Missing, 0)

\* middleware/authenticateToken.js: the token's user must still exist; req.user
\* carries the isAdmin flag as stored now
Authenticated(actor) == UserFound(actor)
IsAdmin(actor) == users[actor].isAdmin

\* a handler that answers `status` and writes nothing
Reject(op, actor, id, target, status) ==
    /\ response' = Response(op, actor, id, target, status)
    /\ emitted' = <<>>
    /\ body' = <<>>
    /\ UNCHANGED <<storeVars, socketVars, msgVars, inflight, sideVars>>

(***************************************************************************)
(* routes/clubs.js                                                         *)
(***************************************************************************)
\* POST /api/clubs; fieldsGiven: name, book and description are all present
CreateClub(actor, fieldsGiven) ==
    LET op == "createClub" IN
    /\ \E id \in ClubIds : clubs[id].status = "unused"
    /\ IF ~Authenticated(actor) THEN Reject(op, actor, Missing, Missing, 401)
       ELSE IF ~fieldsGiven THEN Reject(op, actor, Missing, Missing, 400)
       ELSE LET id == CHOOSE id \in ClubIds : clubs[id].status = "unused" IN
            /\ clubs' = [clubs EXCEPT ![id] =
                            [status |-> "live", createdBy |-> actor, members |-> <<actor>>]]
            /\ users' = [users EXCEPT ![actor].joinedClubs = AddToSet(@, id)]
            /\ response' = Response(op, actor, id, Missing, 201)
            /\ emitted' = <<>>
            /\ body' = <<>>
            /\ UNCHANGED <<socketVars, msgVars, inflight, sideVars>>

\* POST /api/clubs/joinClub
JoinClub(actor, clubId) ==
    LET op == "joinClub" IN
    IF ~Authenticated(actor) THEN Reject(op, actor, clubId, Missing, 401)
    ELSE IF ~isValidId(actor) \/ ~isValidId(clubId) THEN Reject(op, actor, clubId, Missing, 400)
    ELSE IF ~UserFound(actor) \/ ~ClubFound(clubId) THEN Reject(op, actor, clubId, Missing, 404)
    ELSE /\ clubs' = IF ~Some(clubs[clubId].members, actor)
                     THEN [clubs EXCEPT ![clubId].members = Append(@, actor)]
                     ELSE clubs
         /\ users' = IF ~Some(users[actor].joinedClubs, clubId)
                     THEN [users EXCEPT ![actor].joinedClubs = Append(@, clubId)]
                     ELSE users
         /\ response' = Response(op, actor, clubId, Missing, 200)
         /\ emitted' = <<>>
         /\ body' = <<>>
         /\ UNCHANGED <<socketVars, msgVars, inflight, sideVars>>

\* the creator test of leaveClub (mutant: nobody counts as the creator)
LeaverIsCreatorNever(actor, clubId) == FALSE
\* the creator test of leaveClub: toStringId(club.createdBy) === userId
LeaverIsCreator(actor, clubId) == clubs[clubId].createdBy = actor

\* POST /api/clubs/leaveClub
LeaveClub(actor, clubId) ==
    LET op == "leaveClub" IN
    IF ~Authenticated(actor) THEN Reject(op, actor, clubId, Missing, 401)
    ELSE IF ~isValidId(clubId) \/ ~isValidId(actor) THEN Reject(op, actor, clubId, Missing, 400)
    ELSE IF ~ClubFound(clubId) THEN Reject(op, actor, clubId, Missing, 404)
    ELSE IF LeaverIsCreator(actor, clubId) THEN Reject(op, actor, clubId, Missing, 400)
    ELSE /\ clubs' = [clubs EXCEPT ![clubId].members = SeqFilterOut(@, actor)]
         /\ users' = [users EXCEPT ![actor].joinedClubs = Pull(@, clubId)]
         /\ response' = Response(op, actor, clubId, Missing, 200)
         /\ emitted' = <<>>
         /\ body' = <<>>
         /\ UNCHANGED <<socketVars, msgVars, inflight, sideVars>>

\* DELETE /api/clubs/:id (both middleware functions)
DeleteClub(actor, clubId) ==
    LET op == "deleteClub" IN
    IF ~Authenticated(actor) THEN Reject(op, actor, clubId, Missing, 401)
    ELSE IF ~isValidId(clubId) THEN Reject(op, actor, clubId, Missing, 400)
    ELSE IF ~ClubFound(clubId) THEN Reject(op, actor, clubId, Missing, 404)
    ELSE LET isCreator == clubs[clubId].createdBy = actor
             isAdmin == IsAdmin(actor)
             creator == clubs[clubId].createdBy
         IN  IF ~(isCreator \/ isAdmin) THEN Reject(op, actor, clubId, Missing, 403)
             ELSE /\ clubs' = [clubs EXCEPT ![clubId].status = "deleted"]
                  /\ users' = [u \in UserIds |->
                       LET pulled == [users[u] EXCEPT !.joinedClubs = Pull(@, clubId)]
                       IN  IF (isAdmin /\ ~isCreator) /\ u = creator /\ users[u].exists
                           THEN [pulled EXCEPT !.notifications = @ + 1]
                           ELSE pulled]
                  /\ response' = Response(op, actor, clubId, Missing, 200)
                  /\ emitted' = <<>>
                  /\ body' = <<>>
                  /\ UNCHANGED <<socketVars, msgVars, inflight, sideVars>>

\* DELETE /api/clubs/:clubId/removeMember/:userId
RemoveMemberViaClubs(actor, clubId, userId) ==
    LET op == "removeMember/clubs" IN
    IF ~Authenticated(actor) THEN Reject(op, actor, clubId, userId, 401)
    ELSE IF ~isValidId(clubId) \/ ~isValidId(userId) THEN Reject(op, actor, clubId, userId, 400)
    ELSE IF ~ClubFound(clubId) THEN Reject(op, actor, clubId, userId, 404)
    ELSE IF ~(clubs[clubId].createdBy = actor \/ IsAdmin(actor))
         THEN Reject(op, actor, clubId, userId, 403)
    ELSE IF ~Some(clubs[clubId].members, userId) THEN Reject(op, actor, clubId, userId, 404)
    ELSE /\ clubs' = [clubs EXCEPT ![clubId].members = SeqFilterOut(@, userId)]
         /\ users' = IF userId \in UserIds
                     THEN [users EXCEPT ![userId].joinedClubs = Pull(@, clubId)]
                     ELSE users
         /\ response' = Response(op, actor, clubId, userId, 200)
         /\ emitted' = <<>>
         /\ body' = <<>>
         /\ UNCHANGED <<socketVars, msgVars, inflight, sideVars>>

(***************************************************************************)
(* routes/messages.js: removeMember                                        *)
(***************************************************************************)
\* the permission check of the removeMember route (mutant: any member of the club passes)
MayRemoveMemberAsMember(actor, clubId) ==
    Some(clubs[clubId].members, actor) \/ IsAdmin(actor)
\* the permission check of the removeMember route: isCreator || req.user.isAdmin
MayRemoveMember(actor, clubId) == clubs[clubId].createdBy = actor \/ IsAdmin(actor)

\* DELETE /api/messages/removeMember/:clubId/:userId
RemoveMemberViaMessages(actor, clubId, userId) ==
    LET op == "removeMember/messages" IN
    IF ~Authenticated(actor) THEN Reject(op, actor, clubId, userId, 401)
    ELSE IF ~isValidId(clubId) \/ ~isValidId(userId) THEN Reject(op, actor, clubId, userId, 400)
    ELSE IF ~ClubFound(clubId) THEN Reject(op, actor, clubId, userId, 404)
    ELSE IF ~MayRemoveMember(actor, clubId) THEN Reject(op, actor, clubId, userId, 403)
    ELSE LET memberIndex == FindIndex(clubs[clubId].members, userId) IN
         IF memberIndex = 0 THEN Reject(op, actor, clubId, userId, 404)
         ELSE /\ clubs' = [clubs EXCEPT ![clubId].members = Splice1(@, memberIndex)]
              /\ IF ~UserFound(userId)
                 THEN /\ users' = users
                      /\ response' = Response(op, actor, clubId, userId, 404)
                 ELSE /\ users' = [users EXCEPT ![userId].joinedClubs = SeqFilterOut(@, clubId)]
                      /\ response' = Response(op, actor, clubId, userId, 200)
              /\ emitted' = <<>>
              /\ body' = <<>>
              /\ UNCHANGED <<socketVars, msgVars, inflight, sideVars>>

(***************************************************************************)
(* The two removeMember routes as functions of the store: the status each   *)
(* answers and the documents it leaves.                                     *)
(***************************************************************************)
Outcome(status, clubDocs, userDocs) == [status |-> status, clubs |-> clubDocs, users |-> userDocs]

\* DELETE /api/clubs/:clubId/removeMember/:userId
RemoveMemberViaClubsOutcome(actor, clubId, userId) ==
    IF ~Authenticated(actor) THEN Outcome(401, clubs, users)
    ELSE IF ~isValidId(clubId) \/ ~isValidId(userId) THEN Outcome(400, clubs, users)
    ELSE IF ~ClubFound(clubId) THEN Outcome(404, clubs, users)
    ELSE IF ~(clubs[clubId].createdBy = actor \/ IsAdmin(actor)) THEN Outcome(403, clubs, users)
    ELSE IF ~Some(clubs[clubId].members, userId) THEN Outcome(404, clubs, users)
    ELSE Outcome(200,
                 [clubs EXCEPT ![clubId].members = SeqFilterOut(@, userId)],
                 IF userId \in UserIds
                 THEN [users EXCEPT ![userId].joinedClubs = Pull(@, clubId)]
                 ELSE users)

\* DELETE /api/messages/removeMember/:clubId/:userId
RemoveMemberViaMessagesOutcome(actor, clubId, userId) ==
    IF ~Authenticated(actor) THEN Outcome(401, clubs, users)
    ELSE IF ~isValidId(clubId) \/ ~isValidId(userId) THEN Outcome(400, clubs, users)
    ELSE IF ~ClubFound(clubId) THEN Outcome(404, clubs, users)
    ELSE IF ~MayRemoveMember(actor, clubId) THEN Outcome(403, clubs, users)
    ELSE LET memberIndex == FindIndex(clubs[clubId].members, userId)
             saved == [clubs EXCEPT ![clubId].members = Splice1(@, memberIndex)]
         IN
         IF memberIndex = 0 THEN Outcome(404, clubs, users)
         ELSE IF ~UserFound(userId) THEN Outcome(404, saved, users)
         ELSE Outcome(200, saved,
                      [users EXCEPT ![userId].joinedClubs = SeqFilterOut(@, clubId)])

\* the class of a status: success, validation, not-found, permission
OutcomeClass(status) ==
    IF status \in {200, 201} THEN "success"
    ELSE IF status = 400 THEN "validation"
    ELSE IF status = 404 THEN "not-found"
    ELSE IF status \in {401, 403} THEN "permission"
    ELSE "error"

\* the outcome functions are the handlers: a step of either route answers the
\* status and leaves the documents its outcome function gives
OutcomesAreTheHandlers ==
    [][/\ (response' # response /\ response'.op = "removeMember/clubs")
          => LET o == RemoveMemberViaClubsOutcome(response'.actor, response'.id, response'.target)
             IN  response'.status = o.status /\ clubs' = o.clubs /\ users' = o.users
       /\ (response' # response /\ response'.op = "removeMember/messages")
          => LET o == RemoveMemberViaMessagesOutcome(response'.actor, response'.id, response'.target)
             IN  response'.status = o.status /\ clubs' = o.clubs /\ users' = o.users]_vars

(***************************************************************************)
(* routes/messages.js: the message handlers                                *)
(***************************************************************************)
TIME_LIMIT_MS == 5 * 60 * 1000

\* the characters String.prototype.trim strips
Whitespace == {" ", "\n"}

RECURSIVE TrimStart(_)
TrimStart(chars) ==
    IF chars # <<>> /\ Head(chars) \in Whitespace THEN TrimStart(Tail(chars)) ELSE chars
RECURSIVE TrimEnd(_)
TrimEnd(chars) ==
    IF chars # <<>> /\ chars[Len(chars)] \in Whitespace
    THEN TrimEnd(SubSeq(chars, 1, Len(chars) - 1))
    ELSE chars
\* String.prototype.trim
Trim(chars) == TrimEnd(TrimStart(chars))

\* typeof message === "string" ? message.trim() : "" (mutant: the text is not trimmed)
TrimmedMessageUntrimmed(message) == IF message.isString THEN message.chars ELSE <<>>
\* typeof message === "string" ? message.trim() : ""
TrimmedMessage(message) == IF message.isString THEN Trim(message.chars) ELSE <<>>

\* a message id that is not a valid ObjectId; the ids the store issues are 1, 2, ...
BadMessageId == 0
isValidMessageId(id) == id # BadMessageId

\* Message.findById
MessageFound(id) == \E i \in 1..Len(messages) : messages[i].id = id
MessageIndex(id) == CHOOSE i \in 1..Len(messages) : messages[i].id = id
MessageDoc(id) == messages[MessageIndex(id)]

\* memberIds.includes(userId) (mutant: the membership check always passes)
IncludesAnyone(memberIds, userId) == TRUE
\* memberIds.includes(userId)
Includes(memberIds, userId) == Some(memberIds, userId)

\* a handler of the message routes that answers `status` and writes nothing;
\* at: the server clock while it runs
RejectAt(op, actor, id, text, status, at) ==
    /\ response' = [Response(op, actor, id, Missing, status) EXCEPT !.text = text]
    /\ emitted' = <<>>
    /\ body' = <<>>
    /\ now' = at
    /\ UNCHANGED <<storeVars, socketVars, messages, msgCount, inflight, sideVars>>

\* POST /api/messages
SendMessage(actor, message, clubId, at) ==
    LET op == "sendMessage"
        trimmedMessage == TrimmedMessage(message)
    IN
    /\ at >= now
    /\ IF ~Authenticated(actor) THEN RejectAt(op, actor, clubId, message, 401, at)
       ELSE IF trimmedMessage = <<>> THEN RejectAt(op, actor, clubId, message, 400, at)
       ELSE IF ~isValidId(clubId) THEN RejectAt(op, actor, clubId, message, 400, at)
       ELSE IF ~ClubFound(clubId) THEN RejectAt(op, actor, clubId, message, 404, at)
       ELSE IF ~Includes(clubs[clubId].members, actor)
            THEN RejectAt(op, actor, clubId, message, 403, at)
       ELSE IF ~UserFound(actor) THEN RejectAt(op, actor, clubId, message, 401, at)
       ELSE LET newMessage == [id |-> msgCount + 1, user |-> actor, clubId |-> clubId,
                               message |-> trimmedMessage, timestamp |-> at]
            IN  /\ messages' = Append(messages, newMessage)
                /\ msgCount' = msgCount + 1
                /\ now' = at
                /\ emitted' = << Emit(clubId, "newMessage", newMessage) >>
                /\ response' = [Response(op, actor, clubId, Missing, 201)
                                   EXCEPT !.text = message]
                /\ body' = << newMessage >>
                /\ UNCHANGED <<storeVars, socketVars, inflight, sideVars>>

\* the edit handler's window test (mutant: the boundary itself is refused)
EditWindowOverAtLimit(elapsed) == elapsed >= TIME_LIMIT_MS
\* the edit handler's window test: elapsed > TIME_LIMIT_MS
EditWindowOver(elapsed) == elapsed > TIME_LIMIT_MS

\* (mutant: the edit also restamps the message)
SetMessageAndTimestamp(messageDoc, trimmedMessage) ==
    [messageDoc EXCEPT !.message = trimmedMessage, !.timestamp = @ + 1]
\* messageDoc.message = trimmedMessage; await messageDoc.save()
SetMessage(messageDoc, trimmedMessage) == [messageDoc EXCEPT !.message = trimmedMessage]

\* PUT /api/messages/:id
EditMessage(actor, id, message, at) ==
    LET op == "editMessage"
        trimmedMessage == TrimmedMessage(message)
    IN
    /\ at >= now
    /\ IF ~Authenticated(actor) THEN RejectAt(op, actor, id, message, 401, at)
       ELSE IF trimmedMessage = <<>> THEN RejectAt(op, actor, id, message, 400, at)
       ELSE IF ~isValidMessageId(id) THEN RejectAt(op, actor, id, message, 400, at)
       ELSE IF ~MessageFound(id) THEN RejectAt(op, actor, id, message, 404, at)
       ELSE LET messageDoc == MessageDoc(id)
                elapsed == at - messageDoc.timestamp
                saved == SetMessage(messageDoc, trimmedMessage)
            IN  IF messageDoc.user # actor THEN RejectAt(op, actor, id, message, 403, at)
                ELSE IF EditWindowOver(elapsed) THEN RejectAt(op, actor, id, message, 403, at)
                ELSE /\ messages' = [messages EXCEPT ![MessageIndex(id)] = saved]
                     /\ now' = at
                     /\ emitted' = << Emit(saved.clubId, "editMessage", saved) >>
                     /\ response' = [Response(op, actor, id, Missing, 200)
                                        EXCEPT !.text = message]
                     /\ body' = << saved >>
                     /\ UNCHANGED <<storeVars, socketVars, msgCount, inflight, sideVars>>

\* the delete handler's window test (mutant: the boundary itself is outside)
withinEditWindowStrict(elapsed) == elapsed < TIME_LIMIT_MS
\* the delete handler's window test: elapsed <= TIME_LIMIT_MS
withinEditWindow(elapsed) == elapsed <= TIME_LIMIT_MS

\* DELETE /api/messages/:id
DeleteMessage(actor, id, at) ==
    LET op == "deleteMessage" IN
    /\ at >= now
    /\ IF ~Authenticated(actor) THEN RejectAt(op, actor, id, NotAString, 401, at)
       ELSE IF ~isValidMessageId(id) THEN RejectAt(op, actor, id, NotAString, 400, at)
       ELSE IF ~MessageFound(id) THEN RejectAt(op, actor, id, NotAString, 404, at)
       ELSE LET messageDoc == MessageDoc(id) IN
            IF ~ClubFound(messageDoc.clubId) THEN RejectAt(op, actor, id, NotAString, 404, at)
            ELSE LET isOwner == messageDoc.user = actor
                     isClubCreator == clubs[messageDoc.clubId].createdBy = actor
                     isAdmin == IsAdmin(actor)
                     elapsed == at - messageDoc.timestamp
                 IN  IF ~(isAdmin \/ isClubCreator \/ (isOwner /\ withinEditWindow(elapsed)))
                     THEN RejectAt(op, actor, id, NotAString, 403, at)
                     ELSE /\ messages' = Splice1(messages, MessageIndex(id))
                          /\ now' = at
                          /\ emitted' = << Emit(messageDoc.clubId, "deleteMessage", id) >>
                          /\ response' = Response(op, actor, id, Missing, 200)
                          /\ body' = << messageDoc >>
                          /\ UNCHANGED <<storeVars, socketVars, msgCount, inflight, sideVars>>

\* the decimal digits and their values
Digits == <<"0", "1", "2", "3", "4", "5", "6", "7", "8", "9">>
IsDigit(ch) == \E d \in 1..10 : Digits[d] = ch
DigitValue(ch) == (CHOOSE d \in 1..10 : Digits[d] = ch) - 1

\* a JavaScript number: NaN or an integer
NaN == [isNaN |-> TRUE, value |-> 0]
Num(n) == [isNaN |-> FALSE, value |-> n]

RECURSIVE ParseDigits(_, _, _)
\* the value of the longest prefix of decimal digits of chars (NaN when it is empty);
\* seen: a digit has been read, acc: the value read so far
ParseDigits(chars, seen, acc) ==
    IF chars # <<>> /\ IsDigit(Head(chars))
    THEN ParseDigits(Tail(chars), TRUE, 10 * acc + DigitValue(Head(chars)))
    ELSE IF seen THEN Num(acc) ELSE NaN

\* Number.parseInt(value, 10): leading white space is skipped, then an optional sign,
\* then the longest prefix of digits; whatever follows is ignored
ParseInt(value) ==
    IF ~value.isString THEN NaN
    ELSE LET s == TrimStart(value.chars) IN
         IF s # <<>> /\ Head(s) = "-"
         THEN LET n == ParseDigits(Tail(s), FALSE, 0)
              IN  IF n.isNaN THEN NaN ELSE Num(0 - n.value)
         ELSE IF s # <<>> /\ Head(s) = "+" THEN ParseDigits(Tail(s), FALSE, 0)
         ELSE ParseDigits(s, FALSE, 0)

\* Number.isFinite
IsFinite(n) == ~n.isNaN
Min(x, y) == IF x <= y THEN x ELSE y
Max(x, y) == IF x >= y THEN x ELSE y

\* the ceiling and the default of the list limit
MaxLimit == 500
DefaultLimit == 200

\* the limit of the list handler (mutant: Math.max for Math.min)
LimitWithMax(limitParam) ==
    IF IsFinite(limitParam) /\ limitParam.value > 0
    THEN Max(limitParam.value, MaxLimit)
    ELSE DefaultLimit
\* the limit of the list handler:
\* Number.isFinite(limitParam) && limitParam > 0 ? Math.min(limitParam, 500) : 200
Limit(limitParam) ==
    IF IsFinite(limitParam) /\ limitParam.value > 0
    THEN Min(limitParam.value, MaxLimit)
    ELSE DefaultLimit

\* the documents are in strictly ascending timestamp order as they stand
StrictlyAscending(docs) ==
    \A i \in 1..(Len(docs) - 1) : docs[i].timestamp < docs[i + 1].timestamp

RECURSIVE TimestampOrders(_)
\* the orders a sort on timestamp can return the documents in: ascending by
\* timestamp, documents of equal timestamp in any order (the store promises no
\* order among them)
TimestampOrders(docs) ==
    IF StrictlyAscending(docs) THEN {docs}
    ELSE LET least == CHOOSE t \in {docs[i].timestamp : i \in 1..Len(docs)} :
                         \A i \in 1..Len(docs) : t <= docs[i].timestamp
             firsts == {i \in 1..Len(docs) : docs[i].timestamp = least}
         IN  UNION {{<<docs[i]>> \o rest : rest \in TimestampOrders(Splice1(docs, i))} :
                    i \in firsts}

Reverse(s) == [i \in 1..Len(s) |-> s[Len(s) + 1 - i]]
\* .sort on timestamp (mutant: descending, sort({ timestamp: -1 }))
SortDescending(docs) == {Reverse(sorted) : sorted \in TimestampOrders(docs)}
\* .sort({ timestamp: 1 })
SortAscending(docs) == TimestampOrders(docs)

\* Message.find({ clubId }): the documents of the club in natural order
FindByClub(clubId) ==
    LET InClub(doc) == doc.clubId = clubId IN SelectSeq(messages, InClub)

\* GET /api/messages/:clubId
ListMessages(actor, clubId, limitQuery) ==
    LET op == "listMessages"
        limitParam == ParseInt(limitQuery)
        limit == Limit(limitParam)
    IN
    IF ~Authenticated(actor) THEN RejectAt(op, actor, clubId, limitQuery, 401, now)
    ELSE IF ~isValidId(clubId) THEN RejectAt(op, actor, clubId, limitQuery, 400, now)
    ELSE IF ~ClubFound(clubId) THEN RejectAt(op, actor, clubId, limitQuery, 404, now)
    ELSE IF ~Includes(clubs[clubId].members, actor)
         THEN RejectAt(op, actor, clubId, limitQuery, 403, now)
    ELSE \E sorted \in SortAscending(FindByClub(clubId)) :
            /\ body' = SubSeq(sorted, 1, Min(limit, Len(sorted)))
            /\ response' = [Response(op, actor, clubId, Missing, 200)
                               EXCEPT !.text = limitQuery]
            /\ emitted' = <<>>
            /\ UNCHANGED <<storeVars, socketVars, msgVars, inflight, sideVars>>

(***************************************************************************)
(* routes/admin.js                                                         *)
(***************************************************************************)
\* User.findById(...) === null: no document with this id
NoUser == [exists |-> FALSE, isAdmin |-> FALSE, joinedClubs |-> <<>>, notifications |-> 0]

\* DELETE /api/admin/users/:id; the club documents keep the id in their members
DeleteUser(actor, id) ==
    LET op == "deleteUser" IN
    IF ~Authenticated(actor) THEN Reject(op, actor, Missing, id, 401)
    ELSE IF ~IsAdmin(actor) THEN Reject(op, actor, Missing, id, 403)
    ELSE IF ~UserFound(id) THEN Reject(op, actor, Missing, id, 404)
    ELSE IF id = MasterAdmin THEN Reject(op, actor, Missing, id, 403)
    ELSE /\ users' = [users EXCEPT ![id] = NoUser]
         /\ response' = Response(op, actor, Missing, id, 200)
         /\ emitted' = <<>>
         /\ body' = <<>>
         /\ UNCHANGED <<clubs, socketVars, msgVars, inflight, sideVars>>

(***************************************************************************)
(* routes/messages.js: the handlers as the event loop runs them. A handler  *)
(* is suspended at every await, and other requests are served meanwhile;    *)
(* the steps below cut send, edit and delete at the await of their write    *)
(* (Message.create, messageDoc.save, Message.findByIdAndDelete).            *)
(***************************************************************************)
\* doc: the document the handler holds in memory, <<>> when it holds none
Request(op, actor, id, text, doc) ==
    [op |-> op, actor |-> actor, id |-> id, text |-> text, doc |-> doc]
NoRequest == Request("none", Missing, Missing, <<>>, <<>>)

\* a handler step that ends at an await with nothing written and nothing answered
Suspend(request, at) ==
    /\ inflight' = request
    /\ now' = at
    /\ emitted' = <<>>
    /\ UNCHANGED <<storeVars, socketVars, messages, msgCount, response, body, sideVars>>

\* (mutant: the document is stamped when the insert is served)
TimestampAtWrite(built, written) == written
\* timestamp: new Date() is an argument of Message.create: it is evaluated when
\* the handler builds the document, before the insert is awaited
Timestamp(built, written) == built

\* POST /api/messages, up to the await of Message.create
SendMessageRead(actor, message, clubId, at) ==
    LET op == "sendMessage"
        trimmedMessage == TrimmedMessage(message)
    IN
    /\ inflight = NoRequest
    /\ at >= now
    /\ IF ~Authenticated(actor) THEN RejectAt(op, actor, clubId, message, 401, at)
       ELSE IF trimmedMessage = <<>> THEN RejectAt(op, actor, clubId, message, 400, at)
       ELSE IF ~isValidId(clubId) THEN RejectAt(op, actor, clubId, message, 400, at)
       ELSE IF ~ClubFound(clubId) THEN RejectAt(op, actor, clubId, message, 404, at)
       ELSE IF ~Includes(clubs[clubId].members, actor)
            THEN RejectAt(op, actor, clubId, message, 403, at)
       ELSE IF ~UserFound(actor) THEN RejectAt(op, actor, clubId, message, 401, at)
       ELSE Suspend(Request(op, actor, clubId, trimmedMessage, << [timestamp |-> at] >>), at)

\* POST /api/messages, from Message.create on
SendMessageWrite(at) ==
    /\ inflight.op = "sendMessage"
    /\ at >= now
    /\ LET newMessage == [id |-> msgCount + 1, user |-> inflight.actor,
                          clubId |-> inflight.id, message |-> inflight.text,
                          timestamp |-> Timestamp(inflight.doc[1].timestamp, at)]
       IN  /\ messages' = Append(messages, newMessage)
           /\ msgCount' = msgCount + 1
           /\ now' = at
           /\ emitted' = << Emit(inflight.id, "newMessage", newMessage) >>
           /\ response' = [Response("sendMessage", inflight.actor, inflight.id, Missing, 201)
                              EXCEPT !.text = Str(inflight.text)]
           /\ body' = << newMessage >>
           /\ inflight' = NoRequest
           /\ UNCHANGED <<storeVars, socketVars, sideVars>>

\* PUT /api/messages/:id, up to the await of messageDoc.save
EditMessageRead(actor, id, message, at) ==
    LET op == "editMessage"
        trimmedMessage == TrimmedMessage(message)
    IN
    /\ inflight = NoRequest
    /\ at >= now
    /\ IF ~Authenticated(actor) THEN RejectAt(op, actor, id, message, 401, at)
       ELSE IF trimmedMessage = <<>> THEN RejectAt(op, actor, id, message, 400, at)
       ELSE IF ~isValidMessageId(id) THEN RejectAt(op, actor, id, message, 400, at)
       ELSE IF ~MessageFound(id) THEN RejectAt(op, actor, id, message, 404, at)
       ELSE LET messageDoc == MessageDoc(id)
                elapsed == at - messageDoc.timestamp
            IN  IF messageDoc.user # actor THEN RejectAt(op, actor, id, message, 403, at)
                ELSE IF EditWindowOver(elapsed) THEN RejectAt(op, actor, id, message, 403, at)
                ELSE Suspend(Request(op, actor, id, trimmedMessage,
                                     << [messageDoc EXCEPT !.message = trimmedMessage] >>), at)

\* PUT /api/messages/:id, from messageDoc.save on. save() updates the modified
\* path of the stored document; when the document is gone it updates nothing,
\* and then either resolves or rejects (DocumentNotFoundError, answered 500 by
\* the catch block), depending on the Mongoose release: thrown chooses
EditMessageSave(at, thrown) ==
    /\ inflight.op = "editMessage"
    /\ at >= now
    /\ now' = at
    /\ inflight' = NoRequest
    /\ messages' = IF MessageFound(inflight.id)
                   THEN [messages EXCEPT ![MessageIndex(inflight.id)].message = inflight.text]
                   ELSE messages
    /\ IF ~MessageFound(inflight.id) /\ thrown
       THEN /\ response' = [Response("editMessage", inflight.actor, inflight.id, Missing, 500)
                               EXCEPT !.text = Str(inflight.text)]
            /\ emitted' = <<>>
            /\ body' = <<>>
       ELSE /\ response' = [Response("editMessage", inflight.actor, inflight.id, Missing, 200)
                               EXCEPT !.text = Str(inflight.text)]
            /\ emitted' = << Emit(inflight.doc[1].clubId, "editMessage", inflight.doc[1]) >>
            /\ body' = inflight.doc
    /\ UNCHANGED <<storeVars, socketVars, msgCount, sideVars>>

\* DELETE /api/messages/:id, up to the await of Message.findByIdAndDelete
DeleteMessageRead(actor, id, at) ==
    LET op == "deleteMessage" IN
    /\ inflight = NoRequest
    /\ at >= now
    /\ IF ~Authenticated(actor) THEN RejectAt(op, actor, id, NotAString, 401, at)
       ELSE IF ~isValidMessageId(id) THEN RejectAt(op, actor, id, NotAString, 400, at)
       ELSE IF ~MessageFound(id) THEN RejectAt(op, actor, id, NotAString, 404, at)
       ELSE LET messageDoc == MessageDoc(id) IN
            IF ~ClubFound(messageDoc.clubId) THEN RejectAt(op, actor, id, NotAString, 404, at)
            ELSE LET isOwner == messageDoc.user = actor
                     isClubCreator == clubs[messageDoc.clubId].createdBy = actor
                     isAdmin == IsAdmin(actor)
                     elapsed == at - messageDoc.timestamp
                 IN  IF ~(isAdmin \/ isClubCreator \/ (isOwner /\ withinEditWindow(elapsed)))
                     THEN RejectAt(op, actor, id, NotAString, 403, at)
                     ELSE Suspend(Request(op, actor, id, <<>>, << messageDoc >>), at)

\* DELETE /api/messages/:id, from Message.findByIdAndDelete on; the handler
\* does not look at what findByIdAndDelete returns
DeleteMessageWrite(at) ==
    /\ inflight.op = "deleteMessage"
    /\ at >= now
    /\ messages' = IF MessageFound(inflight.id)
                   THEN Splice1(messages, MessageIndex(inflight.id))
                   ELSE messages
    /\ now' = at
    /\ emitted' = << Emit(inflight.doc[1].clubId, "deleteMessage", inflight.id) >>
    /\ response' = Response("deleteMessage", inflight.actor, inflight.id, Missing, 200)
    /\ body' = inflight.doc
    /\ inflight' = NoRequest
    /\ UNCHANGED <<storeVars, socketVars, msgCount, sideVars>>

(***************************************************************************)
(* Membership handlers as the event loop runs them, cut at the await of    *)
(* club.save(). A Mongoose save sends the changes made to the document in  *)
(* memory: an array that was spliced or assigned is written whole ($set),  *)
(* a push is sent as $push onto the stored array. The removeMember route   *)
(* of messages.js loads the club with select("createdBy members"), so the  *)
(* version key is not loaded and its save carries no version test.         *)
(***************************************************************************)
\* $set of the whole array (mutant: the save leaves the stored array alone)
SetMembersKeepStored(stored, inMemory) == stored
\* $set of the whole array: the stored array becomes the one held in memory
SetMembers(stored, inMemory) == inMemory

\* DELETE /api/messages/removeMember/:clubId/:userId, up to the await of club.save()
RemoveMemberViaMessagesRead(actor, clubId, userId) ==
    LET op == "removeMember/messages" IN
    /\ inflight = NoRequest
    /\ IF ~Authenticated(actor) THEN Reject(op, actor, clubId, userId, 401)
       ELSE IF ~isValidId(clubId) \/ ~isValidId(userId) THEN Reject(op, actor, clubId, userId, 400)
       ELSE IF ~ClubFound(clubId) THEN Reject(op, actor, clubId, userId, 404)
       ELSE IF ~MayRemoveMember(actor, clubId) THEN Reject(op, actor, clubId, userId, 403)
       ELSE LET memberIndex == FindIndex(clubs[clubId].members, userId) IN
            IF memberIndex = 0 THEN Reject(op, actor, clubId, userId, 404)
            ELSE Suspend(Request(op, actor, clubId, <<>>,
                                 << [members |-> Splice1(clubs[clubId].members, memberIndex),
                                     userId |-> userId] >>), now)

\* DELETE /api/messages/removeMember/:clubId/:userId, from club.save() on;
\* thrown: a save that finds its document gone rejects (answered 500)
RemoveMemberViaMessagesSave(thrown) ==
    LET op == "removeMember/messages"
        clubId == inflight.id
        userId == inflight.doc[1].userId
        gone == ~ClubFound(clubId)
    IN
    /\ inflight.op = op
    /\ inflight' = NoRequest
    /\ clubs' = IF gone THEN clubs
                ELSE [clubs EXCEPT ![clubId].members = SetMembers(@, inflight.doc[1].members)]
    /\ IF gone /\ thrown
       THEN /\ users' = users
            /\ response' = Response(op, inflight.actor, clubId, userId, 500)
       ELSE IF ~UserFound(userId)
       THEN /\ users' = users
            /\ response' = Response(op, inflight.actor, clubId, userId, 404)
       ELSE /\ users' = [users EXCEPT ![userId].joinedClubs = SeqFilterOut(@, clubId)]
            /\ response' = Response(op, inflight.actor, clubId, userId, 200)
    /\ emitted' = <<>>
    /\ body' = <<>>
    /\ UNCHANGED <<socketVars, msgVars, sideVars>>

\* POST /api/clubs/joinClub, up to the await of club.save(); a caller who is
\* already in club.members has no club.save() and is served to the end
JoinClubRead(actor, clubId) ==
    LET op == "joinClub" IN
    /\ inflight = NoRequest
    /\ IF ~Authenticated(actor) THEN Reject(op, actor, clubId, Missing, 401)
       ELSE IF ~isValidId(actor) \/ ~isValidId(clubId) THEN Reject(op, actor, clubId, Missing, 400)
       ELSE IF ~UserFound(actor) \/ ~ClubFound(clubId) THEN Reject(op, actor, clubId, Missing, 404)
       ELSE IF Some(clubs[clubId].members, actor)
       THEN /\ users' = IF ~Some(users[actor].joinedClubs, clubId)
                        THEN [users EXCEPT ![actor].joinedClubs = Append(@, clubId)]
                        ELSE users
            /\ response' = Response(op, actor, clubId, Missing, 200)
            /\ emitted' = <<>>
            /\ body' = <<>>
            /\ UNCHANGED <<clubs, socketVars, msgVars, inflight, sideVars>>
       ELSE Suspend(Request(op, actor, clubId, <<>>,
                            << [joinedClubs |-> users[actor].joinedClubs] >>), now)

\* POST /api/clubs/joinClub, from club.save() on: the pushed id is sent as $push
\* onto the stored members; then the club is pushed onto the stored joinedClubs
\* unless the user document read at the start already had it
JoinClubSave(thrown) ==
    LET op == "joinClub"
        actor == inflight.actor
        clubId == inflight.id
        gone == ~ClubFound(clubId) \/ ~UserFound(actor)
    IN
    /\ inflight.op = op
    /\ inflight' = NoRequest
    /\ clubs' = IF ClubFound(clubId)
                THEN [clubs EXCEPT ![clubId].members = Append(@, actor)]
                ELSE clubs
    /\ IF gone /\ thrown
       THEN /\ users' = users
            /\ response' = Response(op, actor, clubId, Missing, 500)
       ELSE /\ users' = IF UserFound(actor) /\ ~Some(inflight.doc[1].joinedClubs, clubId)
                        THEN [users EXCEPT ![actor].joinedClubs = Append(@, clubId)]
                        ELSE users
            /\ response' = Response(op, actor, clubId, Missing, 200)
    /\ emitted' = <<>>
    /\ body' = <<>>
    /\ UNCHANGED <<socketVars, msgVars, sideVars>>

(***************************************************************************)
(* The book request routes (POST / and PUT /admin/:id of /api/book-requests)*)
(*                                                                         *)
(* The BookRequest schema is not part of the sources. If it declares a      *)
(* unique index that covers pending requests, an insert or update that      *)
(* would make a second one fails with a duplicate-key error, which the      *)
(* catch block answers with 500; if it declares none, the write goes        *)
(* through. duplicateKey chooses between the two.                          *)
(***************************************************************************)
BookRequestDoc(user, bookTitle, status) ==
    [user |-> user, bookTitle |-> bookTitle, status |-> status]

\* BookRequest.findOne({ user, bookTitle: title, status: "Pending" })
existingPending(requests, user, title) ==
    \E i \in 1..Len(requests) : requests[i] = BookRequestDoc(user, title, "Pending")

\* an identifier that is not a valid ObjectId, as a request id
BadRequestId == 0
RequestFound(id) == id \in 1..Len(bookRequests)
StatusValues == {"Pending", "Approved", "Rejected"}

\* an answer of a book request route that writes nothing
RejectBookRequest(op, actor, id, title, status) ==
    /\ response' = [Response(op, actor, id, Missing, status) EXCEPT !.text = Str(title)]
    /\ emitted' = <<>>
    /\ body' = <<>>
    /\ UNCHANGED <<storeVars, socketVars, msgVars, inflight, sideVars>>

\* POST /api/book-requests, served without another request in between
SubmitBookRequest(actor, bookTitle) ==
    LET op == "submitBookRequest"
        title == Trim(bookTitle)
    IN
    IF ~Authenticated(actor) THEN RejectBookRequest(op, actor, Missing, title, 401)
    ELSE IF title = <<>> THEN RejectBookRequest(op, actor, Missing, title, 400)
    ELSE IF ~UserFound(actor) THEN RejectBookRequest(op, actor, Missing, title, 404)
    ELSE IF existingPending(bookRequests, actor, title)
         THEN RejectBookRequest(op, actor, Missing, title, 409)
    ELSE /\ bookRequests' = Append(bookRequests, BookRequestDoc(actor, title, "Pending"))
         /\ users' = [users EXCEPT ![actor].notifications = @ + 1]
         /\ response' = [Response(op, actor, Missing, Missing, 201) EXCEPT !.text = Str(title)]
         /\ emitted' = <<>>
         /\ body' = <<>>
         /\ UNCHANGED <<clubs, socketVars, msgVars, inflight, identity, books, chat>>

\* POST /api/book-requests, up to the await of BookRequest.create
SubmitBookRequestRead(actor, bookTitle) ==
    LET op == "submitBookRequest"
        title == Trim(bookTitle)
    IN
    /\ inflight = NoRequest
    /\ IF ~Authenticated(actor) THEN RejectBookRequest(op, actor, Missing, title, 401)
       ELSE IF title = <<>> THEN RejectBookRequest(op, actor, Missing, title, 400)
       ELSE IF ~UserFound(actor) THEN RejectBookRequest(op, actor, Missing, title, 404)
       ELSE IF existingPending(bookRequests, actor, title)
            THEN RejectBookRequest(op, actor, Missing, title, 409)
       ELSE Suspend(Request(op, actor, Missing, title, <<>>), now)

\* POST /api/book-requests, from BookRequest.create on. thrown: user.save() of a
\* document that was deleted meanwhile rejects (500) or resolves
SubmitBookRequestWrite(duplicateKey, thrown) ==
    LET op == "submitBookRequest"
        actor == inflight.actor
        title == inflight.text
        answer(status) ==
            response' = [Response(op, actor, Missing, Missing, status) EXCEPT !.text = Str(title)]
    IN
    /\ inflight.op = op
    /\ inflight' = NoRequest
    /\ emitted' = <<>>
    /\ body' = <<>>
    /\ IF existingPending(bookRequests, actor, title) /\ duplicateKey
       THEN answer(500) /\ UNCHANGED <<users, bookRequests>>
       ELSE /\ bookRequests' = Append(bookRequests, BookRequestDoc(actor, title, "Pending"))
            /\ IF UserFound(actor)
               THEN answer(201) /\ users' = [users EXCEPT ![actor].notifications = @ + 1]
               ELSE answer(IF thrown THEN 500 ELSE 201) /\ users' = users
    /\ UNCHANGED <<clubs, socketVars, msgVars, identity, books, chat>>

\* PUT /api/book-requests/admin/:id
UpdateBookRequest(actor, id, status, reasonGiven, duplicateKey) ==
    LET op == "updateBookRequest"
        reject(code) ==
            /\ response' = Response(op, actor, id, Missing, code)
            /\ emitted' = <<>>
            /\ body' = <<>>
            /\ UNCHANGED <<storeVars, socketVars, msgVars, inflight, sideVars>>
    IN
    IF ~Authenticated(actor) THEN reject(401)
    ELSE IF ~IsAdmin(actor) THEN reject(403)
    ELSE IF id = BadRequestId THEN reject(400)
    ELSE IF status \notin StatusValues THEN reject(400)
    ELSE IF status = "Rejected" /\ ~reasonGiven THEN reject(400)
    ELSE IF ~RequestFound(id) THEN reject(404)
    ELSE LET request == bookRequests[id]
             others == Splice1(bookRequests, id)
         IN
         IF /\ status = "Pending" /\ request.status # "Pending"
            /\ existingPending(others, request.user, request.bookTitle)
            /\ duplicateKey
         THEN reject(500)
         ELSE /\ bookRequests' = [bookRequests EXCEPT ![id].status = status]
              /\ users' = IF UserFound(request.user)
                          THEN [users EXCEPT ![request.user].notifications = @ + 1]
                          ELSE users
              /\ response' = Response(op, actor, id, Missing, 200)
              /\ emitted' = <<>>
              /\ body' = <<>>
              /\ UNCHANGED <<clubs, socketVars, msgVars, inflight, identity, books, chat>>

(***************************************************************************)
(* client/src/components/Chat/Chat.jsx: the messages state of the chat page *)
(* of one member, fed by the socket and by the responses to its requests.   *)
(***************************************************************************)
\* a payload without an _id (every falsy _id takes the same branch)
NoId == 0
\* the user whose chat page it is, and the club the page shows
ChatUser == "a"
ChatRoom == "c1"
\* an entry of the messages state: the fields of a serialized message the
\* handlers read or write
Entry(id, message, deleted) == [id |-> id, message |-> message, deleted |-> deleted]
EntryOf(doc) == Entry(doc.id, doc.message, FALSE)
RECURSIVE EntriesOf(_)
EntriesOf(docs) == IF docs = <<>> THEN <<>> ELSE <<EntryOf(Head(docs))>> \o EntriesOf(Tail(docs))

\* (mutant: the duplicate test never finds the message)
AlreadyListedNever(prev, incoming) == FALSE
\* incoming?._id && prev.some((msg) => msg._id === incoming._id)
AlreadyListed(prev, incoming) ==
    incoming.id # NoId /\ \E i \in 1..Len(prev) : prev[i].id = incoming.id

\* the functional update of both handlers: prev, or [...prev, incoming]
AppendUnlessListed(prev, incoming) ==
    IF AlreadyListed(prev, incoming) THEN prev ELSE Append(prev, incoming)

\* prev.map((msg) => msg._id === edited._id ? { ...msg, ...edited } : msg)
MergeEdited(prev, edited) ==
    [i \in 1..Len(prev) |->
        IF prev[i].id = edited.id THEN [prev[i] EXCEPT !.message = edited.message] ELSE prev[i]]

\* prev.map((msg) => msg._id === deletedId ? { ...msg, deleted: true, ... } : msg)
MarkDeleted(prev, deletedId) ==
    [i \in 1..Len(prev) |->
        IF prev[i].id = deletedId THEN [prev[i] EXCEPT !.deleted = TRUE] ELSE prev[i]]

ChatFrame ==
    UNCHANGED <<storeVars, socketVars, msgVars, inflight, identity, books, bookRequests,
                emitted, response, body>>

\* socket.on(MESSAGE_EVENT, (incoming) => ...)
ChatOnNewMessage(incoming) ==
    /\ chat' = [messages |-> AppendUnlessListed(chat.messages, incoming),
                skipped |-> IF AlreadyListed(chat.messages, incoming)
                            THEN chat.skipped \cup {"broadcast"} ELSE chat.skipped]
    /\ ChatFrame

\* handleSendMessage, after the await of api.post("/messages", payload)
ChatSendResponse(data) ==
    /\ chat' = [messages |-> AppendUnlessListed(chat.messages, data),
                skipped |-> IF AlreadyListed(chat.messages, data)
                            THEN chat.skipped \cup {"response"} ELSE chat.skipped]
    /\ ChatFrame

\* fetchMessages, after the await of api.get(`/messages/${clubId}`)
ChatFetchMessages ==
    /\ response.op = "listMessages" /\ response.status = 200
    /\ response.actor = ChatUser /\ response.id = ChatRoom
    /\ chat' = [chat EXCEPT !.messages = EntriesOf(body)]
    /\ ChatFrame

\* socket.on(EDIT_EVENT, (editedMessage) => ...)
ChatOnEditMessage(editedMessage) ==
    /\ editedMessage.id # NoId
    /\ chat' = [chat EXCEPT !.messages = MergeEdited(@, editedMessage)]
    /\ ChatFrame

\* socket.on(DELETE_EVENT, (payload) => ...)
ChatOnDeleteMessage(deletedId) ==
    /\ deletedId # NoId
    /\ chat' = [chat EXCEPT !.messages = MarkDeleted(@, deletedId)]
    /\ ChatFrame

(***************************************************************************)
(* Accounts: seed-data.js, make-admin.js and the registration routes.      *)
(***************************************************************************)
\* SEED_ADMIN_EMAIL || MASTER_ADMIN_EMAIL || "support@clubreaders.com"
SeedEmail == "support@clubreaders.com"
\* SEED_ADMIN_USERNAME || email.split("@")[0]
BaseUserName == "support"
\* process.env.ADMIN_EMAIL: not set in the documented configuration
ADMIN_EMAIL == Missing
Emails == {SeedEmail, "u1@club.lit", "u2@club.lit"}
UserNames == {BaseUserName, "u1", "u2"}
NoIdentity == [email |-> Missing, UserName |-> Missing]

\* User.findOne({ email }) / User.findOne({ UserName }): the ids that match
WithEmail(email) == {id \in UserIds : users[id].exists /\ identity[id].email = email}
WithUserName(name) == {id \in UserIds : users[id].exists /\ identity[id].UserName = name}
FindOne(matching) == CHOOSE id \in matching : TRUE

\* an answer of a route or script that touches accounts only
AccountFrame ==
    UNCHANGED <<socketVars, msgVars, inflight, bookRequests, chat>> /\ emitted' = <<>> /\ body' = <<>>

\* createSeedAdminIfMissing: the User collection after it and the account it
\* returns; newId: the _id a created document gets
CreateSeedAdminIfMissing(newId) ==
    IF WithEmail(SeedEmail) # {}
    THEN LET user == FindOne(WithEmail(SeedEmail)) IN
         [users |-> [users EXCEPT ![user].isAdmin = TRUE], identity |-> identity, id |-> user]
    ELSE IF WithUserName(BaseUserName) # {}
    THEN LET existingByUserName == FindOne(WithUserName(BaseUserName)) IN
         [users |-> [users EXCEPT ![existingByUserName].isAdmin = TRUE],
          identity |-> [identity EXCEPT ![existingByUserName].email = SeedEmail],
          id |-> existingByUserName]
    ELSE [users |-> [users EXCEPT ![newId] = [exists |-> TRUE, isAdmin |-> TRUE,
                                              joinedClubs |-> <<>>, notifications |-> 0]],
          identity |-> [identity EXCEPT ![newId] = [email |-> SeedEmail, UserName |-> BaseUserName]],
          id |-> newId]

\* sampleBooks.length
SampleBookCount == 3
\* countDocuments() === 0 (mutant: the collection always counts as empty)
IsEmptyAlways(count) == TRUE
\* countDocuments() === 0
IsEmpty(count) == count = 0
\* Club.countDocuments()
ClubCount == Cardinality({c \in ClubIds : clubs[c].status = "live"})

\* seedDatabase (the start-up seed step and `node seed-data.js`); newId, newClub:
\* the _ids that created documents get
SeedDatabase(newId, newClub) ==
    LET seeded == CreateSeedAdminIfMissing(newId)
        creates == WithEmail(SeedEmail) = {} /\ WithUserName(BaseUserName) = {}
    IN  /\ creates => ~users[newId].exists
        /\ IsEmpty(ClubCount) => clubs[newClub].status = "unused"
        /\ users' = seeded.users
        /\ identity' = seeded.identity
        /\ books' = IF IsEmpty(books) THEN SampleBookCount ELSE books
        /\ clubs' = IF IsEmpty(ClubCount)
                    THEN [clubs EXCEPT ![newClub] =
                            [status |-> "live", createdBy |-> seeded.id, members |-> <<seeded.id>>]]
                    ELSE clubs
        /\ response' = Response("seedDatabase", Missing, Missing, seeded.id, 200)
        /\ AccountFrame

\* promoteUserToAdmin(email): `node make-admin.js <email>` and the start-up promotion
PromoteUserToAdmin(email) ==
    /\ users' = IF WithEmail(email) # {}
                THEN [users EXCEPT ![FindOne(WithEmail(email))].isAdmin = TRUE]
                ELSE users
    /\ response' = Response("promoteUserToAdmin", Missing, Missing,
                            IF WithEmail(email) # {} THEN FindOne(WithEmail(email)) ELSE Missing,
                            IF WithEmail(email) # {} THEN 200 ELSE 404)
    /\ UNCHANGED <<clubs, sideVars>>
    /\ AccountFrame

\* POST /api/auth/register with a body that validateRegister accepts
RegisterViaAuth(newId, userName, email) ==
    /\ ~users[newId].exists
    /\ IF WithEmail(email) \cup WithUserName(userName) # {}
       THEN /\ response' = Response("register/auth", Missing, Missing, Missing, 409)
            /\ UNCHANGED <<storeVars, sideVars>>
       ELSE /\ users' = [users EXCEPT ![newId] = [exists |-> TRUE, isAdmin |-> FALSE,
                                                  joinedClubs |-> <<>>, notifications |-> 0]]
            /\ identity' = [identity EXCEPT ![newId] = [email |-> email, UserName |-> userName]]
            /\ response' = Response("register/auth", Missing, Missing, newId, 201)
            /\ UNCHANGED <<clubs, books>>
    /\ AccountFrame

\* POST /api/users; isAdminField: the body carries isAdmin: true; valid: the
\* verdict of validate(registrationPayload) of models/User
RegisterViaUsers(newId, userName, email, isAdminField, valid) ==
    /\ ~users[newId].exists
    /\ IF ~valid
       THEN /\ response' = Response("register/users", Missing, Missing, Missing, 400)
            /\ UNCHANGED <<storeVars, sideVars>>
       ELSE IF WithEmail(email) \cup WithUserName(userName) # {}
       THEN /\ response' = Response("register/users", Missing, Missing, Missing, 409)
            /\ UNCHANGED <<storeVars, sideVars>>
       ELSE LET isAdmin == email = ADMIN_EMAIL IN
            /\ users' = [users EXCEPT ![newId] = [exists |-> TRUE,
                                                  isAdmin |-> (isAdmin \/ isAdminField),
                                                  joinedClubs |-> <<>>, notifications |-> 0]]
            /\ identity' = [identity EXCEPT ![newId] = [email |-> email, UserName |-> userName]]
            /\ response' = Response("register/users", Missing, Missing, newId, 201)
            /\ UNCHANGED <<clubs, books>>
    /\ AccountFrame

\* DELETE /api/books/:bookId/admin for a well-formed book id
DeleteBook(actor) ==
    LET op == "deleteBook" IN
    IF ~Authenticated(actor) THEN Reject(op, actor, Missing, Missing, 401)
    ELSE IF ~IsAdmin(actor) THEN Reject(op, actor, Missing, Missing, 403)
    ELSE IF books = 0 THEN Reject(op, actor, Missing, Missing, 404)
    ELSE /\ books' = books - 1
         /\ response' = Response(op, actor, Missing, Missing, 200)
         /\ UNCHANGED <<storeVars, identity>>
         /\ AccountFrame

\* PUT /api/admin/users/:id/make-admin
MakeAdmin(actor, id) ==
    LET op == "makeAdmin" IN
    IF ~Authenticated(actor) THEN Reject(op, actor, Missing, id, 401)
    ELSE IF ~IsAdmin(actor) THEN Reject(op, actor, Missing, id, 403)
    ELSE IF ~UserFound(id) THEN Reject(op, actor, Missing, id, 404)
    ELSE /\ users' = [users EXCEPT ![id].isAdmin = TRUE]
         /\ response' = Response(op, actor, Missing, id, 200)
         /\ UNCHANGED <<clubs, sideVars>>
         /\ AccountFrame

(***************************************************************************)
(* Initial state: a fresh database after the start-up seed step, with the  *)
(* accounts u1 and u2 registered. The seed step creates two sample clubs   *)
(* of one shape (members [creatorId], createdBy creatorId); the model      *)
(* keeps one of them, c1, and leaves the id c2 to the first POST           *)
(* /api/clubs.                                                             *)
(***************************************************************************)
SeedAdmin == "a"
NewUser(isAdmin) ==
    [exists |-> TRUE, isAdmin |-> isAdmin, joinedClubs |-> <<>>, notifications |-> 0]
\* seed-data.js buildSampleClubs: members [creatorId], createdBy creatorId
SampleClub(creatorId) == [status |-> "live", createdBy |-> creatorId, members |-> <<creatorId>>]

InitStore ==
    /\ users = [u \in UserIds |-> NewUser(u = SeedAdmin)]
    /\ clubs = [c \in ClubIds |-> IF c = "c1" THEN SampleClub(SeedAdmin) ELSE NoClub]
    /\ response = NoResponse

InitMessages ==
    /\ messages = <<>>
    /\ msgCount = 0
    /\ now = 0
    /\ body = <<>>
    /\ inflight = NoRequest

\* the accounts of the seed step (a) and of two registrations; the sample books
InitAccounts ==
    /\ identity = [u \in UserIds |->
                     IF u = SeedAdmin THEN [email |-> SeedEmail, UserName |-> BaseUserName]
                     ELSE IF u = "u1" THEN [email |-> "u1@club.lit", UserName |-> "u1"]
                     ELSE [email |-> "u2@club.lit", UserName |-> "u2"]]
    /\ books = SampleBookCount

\* useState([]): the chat page as it is mounted
InitChat == chat = [messages |-> <<>>, skipped |-> {}]

\* no book request has been submitted
InitBookRequests == bookRequests = <<>>

Init == InitSockets /\ InitStore /\ InitMessages /\ InitAccounts /\ InitChat /\ InitBookRequests

\* an empty database, before the server has started for the first time
InitFresh ==
    /\ InitSockets
    /\ InitMessages
    /\ users = [u \in UserIds |-> NoUser]
    /\ clubs = [c \in ClubIds |-> NoClub]
    /\ response = NoResponse
    /\ identity = [u \in UserIds |-> NoIdentity]
    /\ books = 0
    /\ InitChat
    /\ InitBookRequests

SpecPresence == Init /\ [][NextPresence]_vars

\* identifiers as requests carry them
ClubIdInputs == ClubIds \cup {BadId}
UserIdInputs == UserIds \cup {BadId}
\* the accounts that send POST /api/clubs (the seeded club c1 is the administrator's)
ClubCreators == {"u1"}

NextClubs ==
    \/ \E actor \in ClubCreators, fieldsGiven \in BOOLEAN : CreateClub(actor, fieldsGiven)
    \/ \E actor \in UserIds, c \in ClubIdInputs : JoinClub(actor, c)
    \/ \E actor \in UserIds, c \in ClubIdInputs : LeaveClub(actor, c)
    \/ \E actor \in UserIds, c \in ClubIdInputs : DeleteClub(actor, c)
    \/ \E actor \in UserIds, c \in ClubIdInputs, t \in UserIdInputs :
          RemoveMemberViaClubs(actor, c, t)
    \/ \E actor \in UserIds, c \in ClubIdInputs, t \in UserIdInputs :
          RemoveMemberViaMessages(actor, c, t)

SpecClubs == Init /\ [][NextClubs]_vars

(***************************************************************************)
(* The message routes over one club.                                       *)
(***************************************************************************)
\* the number of messages stored over a behaviour
MaxMessages == 1
\* the clock readings of the handlers: the start, the last instant of the edit
\* window of a message sent at the start, and the first instant after it
ClockValues == {0, TIME_LIMIT_MS, TIME_LIMIT_MS + 1}
\* message texts as send requests and as edit requests carry them
SendTexts == {Str(<<>>), Str(<<" ">>), Str(<<" ", "h", "\n">>)}
EditTexts == {NotAString, Str(<<"\n", " ">>), Str(<<"y">>)}
\* message ids as requests carry them
MessageIdInputs == {BadMessageId} \cup (1..MaxMessages)
\* the club the messages go to: created by u1, the administrator a is an outsider
ChatClub == "c2"
\* limit queries of the list requests
FewLimitQueries == {NotAString, Str(<<"1">>)}

NextMsg ==
    \/ \E actor \in ClubCreators : CreateClub(actor, TRUE)
    \/ \E actor \in UserIds : JoinClub(actor, ChatClub)
    \/ \E actor \in UserIds : DeleteClub(actor, ChatClub)
    \/ \E actor \in UserIds, text \in SendTexts, c \in {ChatClub, BadId}, at \in ClockValues :
          SendMessage(actor, text, c, at) /\ msgCount' <= MaxMessages
    \/ \E actor \in UserIds, id \in MessageIdInputs, text \in EditTexts, at \in ClockValues :
          EditMessage(actor, id, text, at)
    \/ \E actor \in UserIds, id \in MessageIdInputs, at \in ClockValues :
          DeleteMessage(actor, id, at)
    \/ \E actor \in UserIds, q \in FewLimitQueries : ListMessages(actor, ChatClub, q)

SpecMsg == Init /\ [][NextMsg]_vars

(***************************************************************************)
(* Long message histories: sends to the seeded club, one clock tick apart, *)
(* and list requests.                                                      *)
(***************************************************************************)
\* the number of messages sent (one more than the ceiling of the list limit)
MaxListMessages == 501
\* the number of messages sent to another club; they come first
MaxForeign == 1
\* a send reads the clock one tick after the send before it; up to message
\* TieHorizon + 1 it may also read the same tick as the send before it
TieHorizon == 1
\* limit queries of the list requests
LimitQueries ==
    {NotAString, Str(<<"x">>), Str(<<"0">>), Str(<<"-", "1">>), Str(<<" ", "2">>),
     Str(<<"5", "0", "1">>), Str(<<"3", "0", "0", "x">>)}

NextList ==
    \/ \E at \in {now, now + 1} :
          /\ msgCount < MaxListMessages
          /\ at = now => (1 <= msgCount /\ msgCount <= TieHorizon)
          /\ SendMessage(SeedAdmin, Str(<<"h">>), "c1", at)
    \/ \E actor \in ClubCreators : msgCount < MaxForeign /\ CreateClub(actor, TRUE)
    \/ \E actor \in ClubCreators :
          /\ msgCount < MaxForeign
          /\ ClubFound("c2")
          /\ SendMessage(actor, Str(<<"y">>), "c2", now + 1)
    \/ \E q \in LimitQueries : ListMessages(SeedAdmin, "c1", q)
    \/ ListMessages(SeedAdmin, "c2", NotAString)

SpecList == Init /\ [][NextList]_vars

(***************************************************************************)
(* Accounts that are deleted while clubs still list them.                  *)
(***************************************************************************)
NextAccounts ==
    \/ \E actor \in ClubCreators : CreateClub(actor, TRUE)
    \/ \E actor \in UserIds, c \in ClubIds : JoinClub(actor, c)
    \/ \E actor \in UserIds, id \in UserIdInputs : DeleteUser(actor, id)
    \/ \E actor \in UserIds, c \in ClubIdInputs, t \in UserIdInputs :
          RemoveMemberViaClubs(actor, c, t)
    \/ \E actor \in UserIds, c \in ClubIdInputs, t \in UserIdInputs :
          RemoveMemberViaMessages(actor, c, t)

SpecAccounts == Init /\ [][NextAccounts]_vars

(***************************************************************************)
(* Requests that overlap: one send, edit or delete is suspended at its      *)
(* write while other requests are served from start to end.                 *)
(***************************************************************************)
MaxRaceMessages == 2
RaceClock == {0, TIME_LIMIT_MS + 1}
RaceUsers == {SeedAdmin, "u1"}
RaceClub == "c1"
RaceTexts == {Str(<<"h">>), Str(<<" ">>)}
RaceMessageIds == 1..MaxRaceMessages

NextRace ==
    \/ \E actor \in RaceUsers : JoinClub(actor, RaceClub)
    \/ \E actor \in RaceUsers : LeaveClub(actor, RaceClub)
    \/ \E actor \in RaceUsers, t \in RaceUsers : RemoveMemberViaClubs(actor, RaceClub, t)
    \/ \E actor \in RaceUsers, t \in RaceUsers : RemoveMemberViaMessages(actor, RaceClub, t)
    \/ \E actor \in RaceUsers : DeleteClub(actor, RaceClub)
    \/ \E actor \in RaceUsers, text \in RaceTexts, at \in RaceClock :
          msgCount < MaxRaceMessages /\ SendMessageRead(actor, text, RaceClub, at)
    \/ \E at \in RaceClock : SendMessageWrite(at)
    \/ \E actor \in RaceUsers, id \in RaceMessageIds, text \in RaceTexts, at \in RaceClock :
          EditMessageRead(actor, id, text, at)
    \/ \E at \in RaceClock, thrown \in BOOLEAN : EditMessageSave(at, thrown)
    \/ \E actor \in RaceUsers, id \in RaceMessageIds, at \in RaceClock :
          DeleteMessageRead(actor, id, at)
    \/ \E at \in RaceClock : DeleteMessageWrite(at)
    \/ \E actor \in RaceUsers, id \in RaceMessageIds, text \in RaceTexts, at \in RaceClock :
          EditMessage(actor, id, text, at)
    \/ \E actor \in RaceUsers, id \in RaceMessageIds, at \in RaceClock :
          DeleteMessage(actor, id, at)
    \/ \E actor \in RaceUsers : ListMessages(actor, RaceClub, NotAString)

SpecRace == Init /\ [][NextRace]_vars

(***************************************************************************)
(* The seed step on any store: registrations, club and book deletions and  *)
(* runs of seedDatabase in any order, from an empty database.              *)
(***************************************************************************)
NextSeed ==
    \/ \E newId \in UserIds, newClub \in ClubIds : SeedDatabase(newId, newClub)
    \/ \E newId \in UserIds, userName \in UserNames, email \in Emails :
          RegisterViaAuth(newId, userName, email)
    \/ \E actor \in UserIds, c \in ClubIds : DeleteClub(actor, c)
    \/ \E actor \in UserIds : DeleteBook(actor)

SpecSeed == InitFresh /\ [][NextSeed]_vars

(***************************************************************************)
(* Administrator accounts: registrations, promotions and deletions.        *)
(***************************************************************************)
NextAdmins ==
    \/ \E newId \in UserIds, newClub \in ClubIds : SeedDatabase(newId, newClub)
    \/ \E email \in Emails : PromoteUserToAdmin(email)
    \/ \E newId \in UserIds, userName \in UserNames, email \in Emails :
          RegisterViaAuth(newId, userName, email)
    \/ \E newId \in UserIds, userName \in UserNames, email \in Emails,
          isAdminField \in BOOLEAN, valid \in BOOLEAN :
          RegisterViaUsers(newId, userName, email, isAdminField, valid)
    \/ \E actor \in UserIds, id \in UserIdInputs : MakeAdmin(actor, id)
    \/ \E actor \in UserIds, id \in UserIdInputs : DeleteUser(actor, id)

SpecAdmins == Init /\ [][NextAdmins]_vars

(***************************************************************************)
(* Membership requests that overlap on the seeded club.                    *)
(***************************************************************************)
MemberClub == "c1"

NextMembers ==
    \/ \E actor \in UserIds : JoinClub(actor, MemberClub)
    \/ \E actor \in UserIds : JoinClubRead(actor, MemberClub)
    \/ \E thrown \in BOOLEAN : JoinClubSave(thrown)
    \/ \E actor \in UserIds : LeaveClub(actor, MemberClub)
    \/ \E actor \in UserIds, t \in UserIds : RemoveMemberViaClubs(actor, MemberClub, t)
    \/ \E actor \in UserIds, t \in UserIds : RemoveMemberViaMessagesRead(actor, MemberClub, t)
    \/ \E thrown \in BOOLEAN : RemoveMemberViaMessagesSave(thrown)
    \/ \E actor \in UserIds : DeleteClub(actor, MemberClub)

SpecMembers == Init /\ [][NextMembers]_vars

(***************************************************************************)
(* Two users send to one club at nearly the same time: one send is          *)
(* suspended at its insert while the other is served from start to end.     *)
(***************************************************************************)
MaxOrderMessages == 2
OrderClock == {0, 1}
OrderUsers == {SeedAdmin, "u1"}
OrderClub == "c1"
OrderTexts == {Str(<<"h">>), Str(<<"h", " ">>)}

NextOrder ==
    \/ \E actor \in OrderUsers : JoinClub(actor, OrderClub)
    \/ \E actor \in OrderUsers, text \in OrderTexts, at \in OrderClock :
          msgCount < MaxOrderMessages /\ SendMessage(actor, text, OrderClub, at)
    \/ \E actor \in OrderUsers, text \in OrderTexts, at \in OrderClock :
          msgCount < MaxOrderMessages /\ SendMessageRead(actor, text, OrderClub, at)
    \/ \E at \in OrderClock : SendMessageWrite(at)
    \/ \E actor \in OrderUsers : ListMessages(actor, OrderClub, NotAString)

SpecOrder == Init /\ [][NextOrder]_vars

(***************************************************************************)
(* The chat page of a member next to the message routes: what the server    *)
(* sent arrives in any order, late, and any number of times.                *)
(***************************************************************************)
MaxChatMessages == 2
MaxLocal == 3
ChatMembers == {SeedAdmin, "u1"}
ChatSendText == Str(<<"h">>)
ChatEditText == Str(<<"y">>)
\* the texts a serialized message can carry
ChatTexts == {<<"h">>, <<"y">>}
\* the newMessage and editMessage payloads that can reach the room: the message
\* of every id issued so far as it was when it was sent or after an edit, and
\* what the socket relay of newMessage forwards (a payload of the sender's making)
IssuedPayloads == {Entry(id, text, FALSE) : id \in 1..msgCount, text \in ChatTexts}
RelayedPayloads == {Entry(NoId, <<"h">>, FALSE)}
\* the bodies of the 201 responses to the page's own sends
OwnResponses ==
    {Entry(id, <<"h">>, FALSE) :
        id \in {k \in 1..msgCount : MessageFound(k) => MessageDoc(k).user = ChatUser}}

NextChat ==
    \/ \E actor \in ChatMembers : JoinClub(actor, ChatRoom)
    \/ \E actor \in ChatMembers :
          msgCount < MaxChatMessages /\ SendMessage(actor, ChatSendText, ChatRoom, 0)
    \/ \E actor \in ChatMembers, id \in 1..MaxChatMessages :
          EditMessage(actor, id, ChatEditText, 0)
    \/ \E actor \in ChatMembers, id \in 1..MaxChatMessages : DeleteMessage(actor, id, 0)
    \/ ListMessages(ChatUser, ChatRoom, NotAString)
    \/ \E incoming \in IssuedPayloads \cup RelayedPayloads :
          Len(chat.messages) < MaxLocal /\ ChatOnNewMessage(incoming)
    \/ \E data \in OwnResponses : Len(chat.messages) < MaxLocal /\ ChatSendResponse(data)
    \/ ChatFetchMessages
    \/ \E editedMessage \in IssuedPayloads : ChatOnEditMessage(editedMessage)
    \/ \E deletedId \in 1..msgCount : ChatOnDeleteMessage(deletedId)

SpecChat == Init /\ [][NextChat]_vars

(***************************************************************************)
(* Book requests: a user's submissions, one of which may be suspended at   *)
(* its insert, and the administrator's decisions.                          *)
(***************************************************************************)
MaxBookRequests == 2
MaxNotifications == 3
BookUsers == {SeedAdmin, "u1"}
\* titles as requests carry them; trimmed, the last two are the same title
BookTitleInputs == {<<>>, <<"t">>, <<" ", "t">>}
BookTitles == {Trim(t) : t \in BookTitleInputs}
RequestIdInputs == {BadRequestId} \cup (1..MaxBookRequests)

NextBooks ==
    \/ \E actor \in BookUsers, t \in BookTitleInputs :
          Len(bookRequests) < MaxBookRequests /\ SubmitBookRequest(actor, t)
    \/ \E actor \in BookUsers, t \in BookTitleInputs :
          Len(bookRequests) < MaxBookRequests /\ SubmitBookRequestRead(actor, t)
    \/ \E duplicateKey \in BOOLEAN, thrown \in BOOLEAN :
          SubmitBookRequestWrite(duplicateKey, thrown)
    \/ \E actor \in BookUsers, id \in RequestIdInputs, status \in StatusValues \cup {"Other"},
          reasonGiven \in BOOLEAN, duplicateKey \in BOOLEAN :
          /\ \A u \in UserIds : users[u].notifications < MaxNotifications
          /\ UpdateBookRequest(actor, id, status, reasonGiven, duplicateKey)

SpecBooks == Init /\ [][NextBooks]_vars

(***************************************************************************)
(* Presence claims.                                                        *)
(***************************************************************************)
\* the number of times x occurs in the sequence s
Occurrences(s, x) == Cardinality({i \in 1..Len(s) : s[i] = x})

\* C1 (as claimed): multi-connection presence. When a connection closes while
\* another open connection has joined the same club for the same user, that
\* user is still in the club's online set after the disconnect.
C1_StaysOnlineUntilLastDisconnect ==
    [][\A s, t \in SocketIds : \A p \in joinedAs[s] \cap joinedAs[t] :
          (s # t /\ sockets[s].open /\ sockets[t].open
                 /\ ~sockets'[s].open /\ sockets'[t].open)
          => p[2] \in Online(p[1])']_vars

\* C2 (as claimed): disconnect scoping. A closing connection takes a user out
\* of a club's online set only if this very connection had joined that club
\* for that user.
C2_DisconnectScopedToOwnClubs ==
    [][\A s \in SocketIds : (sockets[s].open /\ ~sockets'[s].open) =>
          \A c \in ClubIds : \A u \in Online(c) \ Online(c)' :
              <<c, u>> \in joinedAs[s]]_vars

\* C10: join idempotence. A joinRoom that repeats, on the same connection, the
\* (clubId, userId) of the joinRoom handled just before it leaves the whole
\* onlineUsers Map as the first join left it (so every other club's set too),
\* and the user is listed exactly once in the club's set.
C10_JoinRoomIdempotent ==
    [][(/\ event.name = "joinRoom" /\ event'.name = "joinRoom"
        /\ event'.socket = event.socket
        /\ event'.clubId = event.clubId /\ event'.userId = event.userId
        /\ event.clubId # Missing /\ event.userId # Missing)
       => /\ onlineUsers' = onlineUsers
          /\ MapHas(onlineUsers', event.clubId)
          /\ Occurrences(MapGet(onlineUsers', event.clubId), event.userId) = 1]_vars

\* C10 witness: a connection has sent the same joinRoom again, into a club
\* whose set also lists another user
C10_Witness ==
    /\ event.name = "joinRoom" /\ event.repeated
    /\ MapHas(onlineUsers, event.clubId)
    /\ Occurrences(MapGet(onlineUsers, event.clubId), event.userId) = 1
    /\ Len(MapGet(onlineUsers, event.clubId)) = 2

(***************************************************************************)
(* Membership claims.                                                      *)
(***************************************************************************)
RemoveMemberOps == {"removeMember/messages", "removeMember/clubs"}

\* C3 (as claimed): the creator of every existing club is in its member list.
C3_CreatorAlwaysMember ==
    \A c \in ClubIds :
        clubs[c].status = "live" => Some(clubs[c].members, clubs[c].createdBy)

\* C4: removeMember, through either route, on an existing club: it changes
\* club.members or any joinedClubs only when the actor is an administrator
\* or the club's creator; for every other (authenticated) actor it answers
\* 403 and leaves the Club and User collections as they were.
C4_RemoveMemberPermission ==
    [][(/\ response'.op \in RemoveMemberOps
        /\ Authenticated(response'.actor)
        /\ ClubFound(response'.id)
        /\ isValidId(response'.target))
       => LET actor == response'.actor
              c == response'.id
              permitted == IsAdmin(actor) \/ clubs[c].createdBy = actor
          IN  /\ (clubs' # clubs \/ users' # users) => permitted
              /\ ~permitted => (response'.status = 403 /\ clubs' = clubs /\ users' = users)]_vars

\* C4 witness: a removeMember by a plain member of a club with several members
\* was answered 403
C4_Witness ==
    /\ response.op \in RemoveMemberOps /\ response.status = 403
    /\ Some(clubs[response.id].members, response.actor)
    /\ Len(clubs[response.id].members) >= 2

(***************************************************************************)
(* Message claims.                                                         *)
(***************************************************************************)
\* the text has a character other than white space
HasText(text) == text.isString /\ \E i \in 1..Len(text.chars) : text.chars[i] \notin Whitespace
\* five minutes, in milliseconds
FiveMinutesMs == 5 * 60 * 1000

\* C5 (as claimed): for every existing club and every authenticated user who is
\* not in its member list, a sendMessage to that club, whatever its text, is
\* answered with the permission error (403), stores no message and broadcasts
\* nothing.
C5_NonMemberSendIsPermissionError ==
    [][(/\ response'.op = "sendMessage"
        /\ Authenticated(response'.actor)
        /\ ClubFound(response'.id)
        /\ ~Some(clubs[response'.id].members, response'.actor))
       => /\ response'.status = 403
          /\ messages' = messages
          /\ emitted' = <<>>]_vars

\* C5 (amended): a sendMessage of a non-member to an existing club stores no
\* message and broadcasts nothing; it is answered with the permission error
\* (403) when its text has a character other than white space, and with the
\* validation error (400) when the text is empty or white space only.
C5_NonMemberSendStoresNothing ==
    [][(/\ response'.op = "sendMessage"
        /\ Authenticated(response'.actor)
        /\ ClubFound(response'.id)
        /\ ~Some(clubs[response'.id].members, response'.actor))
       => /\ messages' = messages
          /\ emitted' = <<>>
          /\ HasText(response'.text) => response'.status = 403
          /\ ~HasText(response'.text) => response'.status = 400]_vars

\* C5 witness: a non-member's send with a proper text was answered 403 while the
\* club already had a stored message
C5_Witness ==
    /\ response.op = "sendMessage" /\ response.status = 403
    /\ HasText(response.text)
    /\ ClubFound(response.id)
    /\ ~Some(clubs[response.id].members, response.actor)
    /\ \E i \in 1..Len(messages) : messages[i].clubId = response.id

\* C6: an editMessage by an authenticated user on an existing message, with a
\* text that is non-empty (it has a character other than white space), succeeds
\* if and only if the user is the message's author and at most five minutes
\* have passed since the message was created, the boundary included; it then
\* changes the text of that message and nothing else. Every other such edit,
\* so every edit after the window whoever sends it, is answered with the
\* permission error (403) and changes no message.
C6_EditIffAuthorInWindow ==
    [][(/\ response'.op = "editMessage"
        /\ Authenticated(response'.actor)
        /\ MessageFound(response'.id)
        /\ HasText(response'.text))
       => LET i == MessageIndex(response'.id)
              allowed == /\ messages[i].user = response'.actor
                         /\ now' - messages[i].timestamp <= FiveMinutesMs
          IN  /\ allowed => /\ response'.status = 200
                            /\ Len(messages') = Len(messages)
                            /\ messages' = [messages EXCEPT ![i].message = messages'[i].message]
                            /\ HasText(Str(messages'[i].message))
                            /\ Len(emitted') = 1 /\ emitted'[1].event = "editMessage"
              /\ ~allowed => /\ response'.status = 403
                             /\ messages' = messages
                             /\ emitted' = <<>>]_vars

\* C6 witness: the author's edit exactly five minutes after the message was
\* created succeeded and changed the text
C6_Witness ==
    /\ response.op = "editMessage" /\ response.status = 200
    /\ Len(body) = 1
    /\ body[1].user = response.actor
    /\ now - body[1].timestamp = FiveMinutesMs
    /\ body[1].message = <<"y">>

\* C7 (as claimed): a deleteMessage by an authenticated user on an existing
\* message succeeds (and removes the message) if and only if the user is an
\* administrator, or the creator of the message's club, or the message's author
\* at most five minutes after its creation; so an administrator's delete of an
\* existing message always succeeds.
C7_DeleteIffAdminCreatorOrAuthorInWindow ==
    [][(/\ response'.op = "deleteMessage"
        /\ Authenticated(response'.actor)
        /\ MessageFound(response'.id))
       => LET i == MessageIndex(response'.id)
              club == messages[i].clubId
              allowed == \/ IsAdmin(response'.actor)
                         \/ ClubFound(club) /\ clubs[club].createdBy = response'.actor
                         \/ /\ messages[i].user = response'.actor
                            /\ now' - messages[i].timestamp <= FiveMinutesMs
          IN  /\ allowed => (response'.status = 200 /\ messages' = Splice1(messages, i))
              /\ ~allowed => (response'.status = 403 /\ messages' = messages)]_vars

\* C7 (amended): the same, for an existing message whose club still exists. On
\* a message whose club has been deleted (deleting a club leaves its messages
\* stored) every delete, an administrator's too, is answered "not found" (404)
\* and removes nothing.
C7_DeleteWhileClubExists ==
    [][(/\ response'.op = "deleteMessage"
        /\ Authenticated(response'.actor)
        /\ MessageFound(response'.id))
       => LET i == MessageIndex(response'.id)
              club == messages[i].clubId
              allowed == \/ IsAdmin(response'.actor)
                         \/ clubs[club].createdBy = response'.actor
                         \/ /\ messages[i].user = response'.actor
                            /\ now' - messages[i].timestamp <= FiveMinutesMs
          IN  IF ClubFound(club)
              THEN /\ allowed => /\ response'.status = 200
                                 /\ messages' = Splice1(messages, i)
                                 /\ Len(emitted') = 1 /\ emitted'[1].event = "deleteMessage"
                   /\ ~allowed => (response'.status = 403 /\ messages' = messages)
              ELSE response'.status = 404 /\ messages' = messages]_vars

\* C7 witness: an administrator who is neither the author nor the club's creator
\* deleted a message more than five minutes old
C7_Witness ==
    /\ response.op = "deleteMessage" /\ response.status = 200
    /\ Len(body) = 1
    /\ IsAdmin(response.actor)
    /\ body[1].user # response.actor
    /\ ClubFound(body[1].clubId)
    /\ clubs[body[1].clubId].createdBy # response.actor
    /\ now - body[1].timestamp > FiveMinutesMs
    /\ \A i \in 1..Len(messages) : messages[i].id # body[1].id

(***************************************************************************)
(* Listing claims.                                                         *)
(***************************************************************************)
\* the messages sent to club c and stored, in the order they were sent
SentTo(c) == LET InClub(doc) == doc.clubId = c IN SelectSeq(messages, InClub)
\* no two stored messages have the same timestamp
DistinctTimestamps ==
    Cardinality({messages[i].timestamp : i \in 1..Len(messages)}) = Len(messages)

\* C8 (as claimed): for every N, a listMessages without a limit, after N
\* successful sends to the club and no edit or delete, returns exactly those N
\* messages in the order they were sent.
C8_ListReturnsAllSent ==
    (/\ response.op = "listMessages" /\ response.status = 200
     /\ ~response.text.isString)
    => body = SentTo(response.id)

\* C8 (amended): the same for every N up to the default limit of 200, the sends
\* having pairwise distinct timestamps; for N above 200 the list has only the
\* 200 messages sent first, in the order they were sent.
C8_ListReturnsAllSentUpToDefault ==
    (/\ response.op = "listMessages" /\ response.status = 200
     /\ ~response.text.isString
     /\ DistinctTimestamps)
    => LET sent == SentTo(response.id)
       IN  IF Len(sent) <= DefaultLimit
           THEN body = sent
           ELSE body = SubSeq(sent, 1, DefaultLimit)

\* C8 witness: a list without a limit returned all the messages of a club that
\* has exactly 200, while the store also holds a message of another club
C8_Witness ==
    /\ response.op = "listMessages" /\ response.status = 200
    /\ ~response.text.isString
    /\ Len(body) = DefaultLimit
    /\ body = SentTo(response.id)
    /\ Len(messages) > Len(body)
    /\ DistinctTimestamps
    /\ \A i \in 1..(Len(body) - 1) : body[i].id < body[i + 1].id

\* the limit C9 states for the number n the handler reads from the limit query
ClaimedLimit(n) ==
    IF ~n.isNaN /\ n.value >= 1
    THEN (IF n.value <= MaxLimit THEN n.value ELSE MaxLimit)
    ELSE DefaultLimit

\* C9: a listMessages(clubId, limit) returns at most L messages, in ascending
\* order of their send time, where L = min(limit, 500) when limit is a positive
\* integer and L = 200 when limit is absent, zero, negative or not a number
\* (limit: the number Number.parseInt reads from the query). The list is the
\* first min(L, N) of the club's N messages in send order.
C9_ListLimit ==
    (response.op = "listMessages" /\ response.status = 200)
    => LET L == ClaimedLimit(ParseInt(response.text))
           sent == SentTo(response.id)
       IN  /\ Len(body) <= L
           /\ \A i \in 1..(Len(body) - 1) : body[i].timestamp <= body[i + 1].timestamp
           /\ DistinctTimestamps =>
                 body = SubSeq(sent, 1, IF Len(sent) <= L THEN Len(sent) ELSE L)

\* C9 witness: a list with limit 501 returned 500 of the 501 messages of the club
C9_Witness ==
    /\ response.op = "listMessages" /\ response.status = 200
    /\ response.text = Str(<<"5", "0", "1">>)
    /\ Len(body) = MaxLimit
    /\ Len(SentTo(response.id)) = MaxLimit + 1
    /\ body[1].id = 1 /\ body[MaxLimit].id = MaxLimit

(***************************************************************************)
(* Membership consistency and error-handling claims.                       *)
(***************************************************************************)
\* C11 (as claimed): bidirectional membership consistency. In every state
\* between requests, from the seeded initial state on, for every existing user
\* u and existing club c: u is in c.members if and only if c is in
\* u.joinedClubs.
C11_BidirectionalMembership ==
    \A u \in UserIds, c \in ClubIds :
        (UserFound(u) /\ ClubFound(c))
        => (Some(clubs[c].members, u) <=> Some(users[u].joinedClubs, c))

\* C12: a leaveClub by the creator of an existing club is rejected (400) and
\* leaves the Club and User collections, so club.members and the creator's
\* joinedClubs, as they were; a leaveClub by any other member is accepted,
\* after it the user is not in club.members and the club is not in the user's
\* joinedClubs, and no other member, club or user is touched.
C12_CreatorCannotLeave ==
    [][(/\ response'.op = "leaveClub"
        /\ Authenticated(response'.actor)
        /\ ClubFound(response'.id))
       => LET actor == response'.actor
              c == response'.id
          IN  /\ clubs[c].createdBy = actor
                 => (response'.status = 400 /\ clubs' = clubs /\ users' = users)
              /\ (clubs[c].createdBy # actor /\ Some(clubs[c].members, actor))
                 => /\ response'.status = 200
                    /\ ~Some(clubs'[c].members, actor)
                    /\ ~Some(users'[actor].joinedClubs, c)
                    /\ Range(clubs'[c].members) = Range(clubs[c].members) \ {actor}
                    /\ \A d \in ClubIds \ {c} : clubs'[d] = clubs[d]
                    /\ \A u \in UserIds \ {actor} : users'[u] = users[u]]_vars

\* C12 witness: the creator of a club with a second member asked to leave and
\* was refused
C12_Witness ==
    /\ response.op = "leaveClub" /\ response.status = 400
    /\ ClubFound(response.id)
    /\ clubs[response.id].createdBy = response.actor
    /\ Some(clubs[response.id].members, response.actor)
    /\ Len(clubs[response.id].members) >= 2

\* the operations C13 and C14 name
CoreOps == {"sendMessage", "editMessage", "deleteMessage"} \cup RemoveMemberOps

\* C13 (as claimed): check-then-act. A sendMessage, editMessage, deleteMessage
\* or removeMember that is answered with an error (400, 401, 403 or 404) has
\* changed nothing in the stored clubs, users and messages.
C13_ErrorsChangeNothing ==
    [][(response'.op \in CoreOps /\ response'.status >= 400)
       => (clubs' = clubs /\ users' = users /\ messages' = messages)]_vars

\* C14 (as claimed): existence before permission. A core operation is answered
\* with a permission error (403) only when every entity it refers to exists: the
\* club and the member to remove for removeMember, the club for sendMessage, the
\* message and its club for editMessage and deleteMessage. A missing one gives
\* not-found even when the actor would also fail the authorization check.
C14_ExistenceBeforePermission ==
    [][response'.status = 403
       => /\ response'.op \in RemoveMemberOps
             => /\ ClubFound(response'.id)
                /\ UserFound(response'.target)
                /\ Some(clubs[response'.id].members, response'.target)
          /\ response'.op = "sendMessage" => ClubFound(response'.id)
          /\ response'.op \in {"editMessage", "deleteMessage"}
             => /\ MessageFound(response'.id)
                /\ ClubFound(MessageDoc(response'.id).clubId)]_vars

\* C15: after every step every stored message has a text that is non-empty after
\* trimming; a sendMessage or editMessage of an authenticated user whose text is
\* empty or only white space is answered with the validation error (400),
\* whether or not the club or message it names exists, and leaves the stored
\* messages unchanged.
C15_StoredTextNonBlank ==
    [][/\ \A i \in 1..Len(messages') : Trim(messages'[i].message) # <<>>
       /\ (/\ response'.op \in {"sendMessage", "editMessage"}
           /\ Authenticated(response'.actor)
           /\ ~HasText(response'.text))
          => (response'.status = 400 /\ messages' = messages /\ emitted' = <<>>)]_vars

\* C15 witness: the author's edit of a stored message to a text of white space
\* only was answered 400 and the message kept its text
C15_Witness ==
    /\ response.op = "editMessage" /\ response.status = 400
    /\ response.text.isString /\ response.text.chars # <<>> /\ ~HasText(response.text)
    /\ MessageFound(response.id)
    /\ MessageDoc(response.id).user = response.actor
    /\ Trim(MessageDoc(response.id).message) # <<>>

(***************************************************************************)
(* Claims about overlapping requests.                                      *)
(***************************************************************************)
\* C16 (as claimed): whenever a message is added to the store, in that very
\* step its club exists and its author is in the club's member list, also when
\* a removeMember, leaveClub or deleteClub was served between the membership
\* check of the send and its write.
C16_PersistedInLiveClubByMember ==
    [][Len(messages') > Len(messages)
       => LET newMessage == messages'[Len(messages')]
          IN  /\ ClubFound(newMessage.clubId)
              /\ Some(clubs[newMessage.clubId].members, newMessage.user)]_vars

\* the message ids whose documents have been deleted (ids are issued once)
RemovedIds == {id \in 1..msgCount : ~MessageFound(id)}
\* this step completes a request: a new answer, or the suspended handler resumed
Completes == response' # response \/ (inflight # NoRequest /\ inflight' = NoRequest)

\* C17 (as claimed): removed is terminal. A message that has been deleted stays
\* absent from the store, no later listMessages returns it, and every
\* editMessage or deleteMessage on it that completes afterwards (a later one, or
\* one that was in flight when it was deleted) fails: it is answered with an
\* error, broadcasts nothing and does not re-create the message.
C17_RemovedIsTerminal ==
    [][\A id \in RemovedIds :
          /\ \A i \in 1..Len(messages') : messages'[i].id # id
          /\ (Completes /\ response'.op = "listMessages")
             => \A i \in 1..Len(body') : body'[i].id # id
          /\ (/\ Completes
              /\ response'.op \in {"editMessage", "deleteMessage"}
              /\ response'.id = id)
             => (response'.status >= 400 /\ emitted' = <<>>)]_vars

\* C18: event fan-out. A sendMessage, editMessage or deleteMessage that succeeds
\* makes exactly one broadcast, to the room of the message's own club: the full
\* message under "newMessage" or "editMessage", only the message id under
\* "deleteMessage"; when it is made the store already shows the operation (the
\* new message is stored, the stored document of the edited message is the one
\* broadcast, the deleted message is gone). One that fails broadcasts nothing.
C18_FanOut ==
    [][(Completes /\ response'.op \in {"sendMessage", "editMessage", "deleteMessage"})
       => IF response'.status < 400
          THEN /\ Len(emitted') = 1
               /\ Len(body') = 1
               /\ emitted'[1].room = body'[1].clubId
               /\ response'.op = "sendMessage"
                  => /\ emitted'[1].event = "newMessage"
                     /\ emitted'[1].payload = body'[1]
                     /\ \E i \in 1..Len(messages') : messages'[i] = body'[1]
               /\ response'.op = "editMessage"
                  => /\ emitted'[1].event = "editMessage"
                     /\ emitted'[1].payload = body'[1]
                     /\ body'[1].id = response'.id
                     /\ \A i \in 1..Len(messages') :
                           messages'[i].id = response'.id => messages'[i] = body'[1]
               /\ response'.op = "deleteMessage"
                  => /\ emitted'[1].event = "deleteMessage"
                     /\ emitted'[1].payload = response'.id
                     /\ body'[1].id = response'.id
                     /\ \A i \in 1..Len(messages') : messages'[i].id # response'.id
          ELSE emitted' = <<>>]_vars

\* C18 witness: somebody other than its author deleted a message, and the one
\* broadcast went to the club's room with the message id
C18_Witness ==
    /\ response.op = "deleteMessage" /\ response.status = 200
    /\ Len(body) = 1 /\ body[1].user # response.actor
    /\ emitted = << [room |-> body[1].clubId, event |-> "deleteMessage", payload |-> response.id] >>
    /\ ~MessageFound(response.id)

(***************************************************************************)
(* Presence broadcasts.                                                    *)
(***************************************************************************)
\* C19: a joinRoom or disconnect handler that changes the online set of a club
\* broadcasts, in the same step, to that club's room, and every presence
\* broadcast it makes to a room carries that club's online set as it is after
\* the handler; a disconnect that changes no set emits nothing.
C19_PresenceBroadcastOnChange ==
    [][event'.name \in {"joinRoom", "disconnect"}
       => /\ \A c \in ClubIds :
                Online(c)' # Online(c)
                => \E i \in 1..Len(emitted') :
                      /\ emitted'[i].room = c
                      /\ emitted'[i].payload = MapGet(onlineUsers', c)
          /\ \A i \in 1..Len(emitted') :
                /\ MapHas(onlineUsers', emitted'[i].room)
                /\ emitted'[i].payload = MapGet(onlineUsers', emitted'[i].room)
          /\ (event'.name = "disconnect" /\ onlineUsers' = onlineUsers) => emitted' = <<>>]_vars

\* C19 witness: one disconnect took a user out of the online sets of two clubs,
\* one of which still has somebody online, and broadcast to both rooms
C19_Witness ==
    /\ event.name = "disconnect"
    /\ \A c \in ClubIds : \E i \in 1..Len(emitted) :
          emitted[i].room = c /\ emitted[i].payload = MapGet(onlineUsers, c)
    /\ \E c \in ClubIds : Online(c) # {}

\* C20 (as claimed): presence accuracy. A user id is in the online set of a club
\* only while at least one open connection has joined that club for that user;
\* in particular every online set is empty when no connection is open.
C20_PresenceAccurate ==
    \A c \in ClubIds :
        \A u \in Online(c) :
            \E s \in SocketIds : sockets[s].open /\ <<c, u>> \in joinedAs[s]

(***************************************************************************)
(* Seeding and administrator accounts.                                      *)
(***************************************************************************)
\* the existing accounts
Accounts == {id \in UserIds : users[id].exists}

C27_AdminOnlyByAdminOrStartup ==
    [][\A id \in UserIds :
          (users'[id].exists /\ users'[id].isAdmin /\ ~(users[id].exists /\ users[id].isAdmin))
          => \/ response'.op \in {"seedDatabase", "promoteUserToAdmin"}
             \/ /\ response'.op = "makeAdmin"
                /\ UserFound(response'.actor)
                /\ users[response'.actor].isAdmin]_vars

(***************************************************************************)
(* Concurrent membership changes.                                           *)
(***************************************************************************)
\* C22: membership changes are unguarded read-modify-write sequences. The save
\* of a removeMember that was suspended writes the member list it computed from
\* the club it read, whatever the stored list has become, and the request is
\* answered as a success; the witness is the interleaving in which a joinClub
\* that was served in between loses its change.
C22_SaveOverwritesMembers ==
    [][(/\ inflight.op = "removeMember/messages" /\ inflight' = NoRequest
        /\ ClubFound(inflight.id) /\ UserFound(inflight.doc[1].userId))
       => /\ clubs'[inflight.id].members = inflight.doc[1].members
          /\ response'.op = "removeMember/messages" /\ response'.status = 200
          /\ \A u \in Range(clubs[inflight.id].members) \ Range(inflight.doc[1].members) :
                ~Some(clubs'[inflight.id].members, u)]_vars

\* C22 witness: u1 joined while the removal of u2 was suspended; both requests
\* were answered 200 and u1 is not in club.members, although the club is in
\* u1's joinedClubs
C22_Witness ==
    /\ response.op = "removeMember/messages" /\ response.status = 200
    /\ response.target = "u2" /\ inflight = NoRequest
    /\ ClubFound(MemberClub)
    /\ ~Some(clubs[MemberClub].members, "u1")
    /\ Some(users["u1"].joinedClubs, MemberClub)
    /\ ~Some(clubs[MemberClub].members, "u2")
    /\ ~Some(users["u2"].joinedClubs, MemberClub)

\* C28: a club's member list never holds the same user id twice, whether the
\* joinClub requests of one user are served one after the other or overlap.
C28_MembersDistinct ==
    \A c \in ClubIds :
        \A i, j \in 1..Len(clubs[c].members) :
            clubs[c].members[i] = clubs[c].members[j] => i = j

\* C24: every newMessage event delivered to a club's room carries a message
\* that is persisted for that club and was written by a member through
\* sendMessage; no connection can cause a newMessage broadcast otherwise.
C24_NewMessageOnlyFromSendMessage ==
    \A i \in 1..Len(emitted) :
        emitted[i].event = "newMessage"
            => \E k \in 1..Len(messages) :
                  /\ messages[k].clubId = emitted[i].room
                  /\ DOMAIN emitted[i].payload = DOMAIN messages[k]
                  /\ emitted[i].payload = messages[k]

\* C25: the two removeMember routes are equivalent: from the same store state,
\* with the same actor and target, they answer in the same outcome class and
\* leave the same club documents (members) and user documents (joinedClubs).
C25_RoutesEquivalent ==
    \A actor \in UserIds, clubId \in ClubIdInputs, userId \in UserIdInputs :
        LET viaClubs == RemoveMemberViaClubsOutcome(actor, clubId, userId)
            viaMessages == RemoveMemberViaMessagesOutcome(actor, clubId, userId)
        IN  /\ OutcomeClass(viaClubs.status) = OutcomeClass(viaMessages.status)
            /\ viaClubs.clubs = viaMessages.clubs
            /\ viaClubs.users = viaMessages.users

(***************************************************************************)
(* What an edit leaves alone.                                               *)
(***************************************************************************)
\* the message ids of a club in the order listMessages returns them
ListedIds(docs, clubId) ==
    LET InClub(doc) == doc.clubId = clubId
        inClub == SelectSeq(docs, InClub)
    IN  {[i \in 1..Len(sorted) |-> sorted[i].id] : sorted \in SortAscending(inClub)}

C23_BroadcastAtInsertListByTimestamp ==
    [][/\ (Completes /\ response'.op = "sendMessage" /\ response'.status = 201)
          => /\ Len(body') = 1
             /\ emitted' = << [room |-> response'.id, event |-> "newMessage",
                               payload |-> body'[1]] >>
             /\ messages' = Append(messages, body'[1])
             /\ body'[1].id = Len(messages')
             /\ body'[1].timestamp =
                   IF inflight # NoRequest /\ inflight' = NoRequest
                   THEN inflight.doc[1].timestamp
                   ELSE now'
       /\ (Completes /\ response'.op = "listMessages" /\ response'.status = 200)
          => \A i, j \in 1..Len(body') :
                i < j => body'[i].timestamp <= body'[j].timestamp]_vars

\* C23 witness: two users sent to the same club; the message that was broadcast
\* first (stored first) has the later timestamp, and listMessages returned the
\* two messages in the opposite order
C23_Witness ==
    /\ Len(messages) = 2
    /\ messages[1].user # messages[2].user
    /\ messages[1].clubId = OrderClub /\ messages[2].clubId = OrderClub
    /\ messages[1].timestamp > messages[2].timestamp
    /\ response.op = "listMessages" /\ response.status = 200
    /\ body = << messages[2], messages[1] >>

(***************************************************************************)
(* The chat page.                                                           *)
(***************************************************************************)
\* C29: the messages state of the chat page never holds two entries with the
\* same message id, whichever of the response to the page's own send and the
\* broadcast of the same message arrives first, and however often a broadcast
\* is delivered. (An entry made from a payload without an _id has no message id.)
C29_LocalIdsDistinct ==
    \A i, j \in 1..Len(chat.messages) :
        (i # j /\ chat.messages[i].id # NoId) => chat.messages[i].id # chat.messages[j].id

\* C29 witness: the page has dropped a broadcast of a message it had already
\* listed and a send response whose message the broadcast had already brought,
\* and lists both stored messages once
C29_Witness ==
    /\ chat.skipped = {"broadcast", "response"}
    /\ Len(chat.messages) = 2
    /\ {chat.messages[1].id, chat.messages[2].id} = {1, 2}
    /\ msgCount = 2

(***************************************************************************)
(* Book requests.                                                           *)
(***************************************************************************)
\* the pending requests of a user for a title
PendingRequests(requests, user, title) ==
    {i \in 1..Len(requests) : requests[i] = BookRequestDoc(user, title, "Pending")}

\* C30: there is at most one book request with status Pending per (user, title)
\* pair, and a submission for a title for which the user already has a Pending
\* request, also one that was in flight when that request was made, is answered
\* with a conflict (409) and creates neither a request nor a notification.
C30_OnePendingPerUserAndTitle ==
    [][/\ \A u \in UserIds, t \in BookTitles :
             Cardinality(PendingRequests(bookRequests', u, t)) <= 1
       /\ (/\ Completes /\ response'.op = "submitBookRequest"
           /\ response'.text.chars # <<>> /\ response'.status # 401
           /\ PendingRequests(bookRequests, response'.actor, response'.text.chars) # {})
          => /\ response'.status = 409
             /\ bookRequests' = bookRequests
             /\ users' = users]_vars

====
